---- MODULE Spec2Model ----
(***************************************************************************)
(* Model of the Discord bot (src/bot/enhanced.logging.js, src/bot/         *)
(* database.js) and of the dashboard's log routes (GET/POST /api/logs,     *)
(* POST /api/logs/[id]/retry, DELETE /api/logs/clear, POST                 *)
(* /api/logs/rotate).                                                      *)
(*                                                                         *)
(* The store is the SQLite file shared by both processes.  A handler is    *)
(* one action: the statements a handler queues on its connection take      *)
(* effect within the action.  A trigger firing is two steps: the tick of   *)
(* the clock invokes the callbacks of the matching jobs (Tick) and each    *)
(* callback then runs to its end (FireJob).                                *)
(*                                                                         *)
(* Encodings.  A time of day "HH:MM" is the record [h, m] of its two       *)
(* numerals; a days string "1,3" is the sequence <<1, 3>> of its tokens    *)
(* and the absent/empty days string is <<>>.  A text column is a string,   *)
(* NullStr for SQL NULL; a content is a sequence of text pieces (<<>> for  *)
(* NULL), so that a prefixed template differs from the bare content.  A    *)
(* timestamp is an instant, counted in fractions of a day (TicksPerDay).   *)
(***************************************************************************)
EXTENDS Integers, Sequences, FiniteSets, TLC

\* ------------------------------------------------------------------ bounds
MaxItems == 2          \* rows ever inserted into reminders and tasks together
MaxSendId == 2         \* ids send_logs hands out between two clears
MaxActivityId == 1     \* ids activity_logs hands out between two clears
MaxNow == 2            \* the clock runs over the instants 0..MaxNow
TicksPerDay == 2       \* instants per calendar day
MaxRotations == 1      \* rows ever inserted into log_rotation
MaxStamp == 4          \* a paged log holds rows of the instants 1..MaxStamp
MaxLimit == 3          \* a paging client asks for 1..MaxLimit rows a page
MaxEnhanced == 2       \* logEnhanced is called at most MaxEnhanced times

\* ------------------------------------------------------------ input domains
Users == {"u1", "u2"}
\* The requests that create a reminder / a task: [user, channel, content,
\* time (, days)]
ReminderInputs ==
  {[user_id |-> "u1", channel_id |-> "ch1", content |-> "standup",
    time |-> [h |-> 9, m |-> 0]],
   [user_id |-> "u2", channel_id |-> "ch1", content |-> "standup",
    time |-> [h |-> 24, m |-> 0]]}
TaskInputs ==
  {[user_id |-> "u1", channel_id |-> "ch1", content |-> "standup",
    time |-> [h |-> 9, m |-> 0], days |-> <<1, 3>>],
   [user_id |-> "u2", channel_id |-> "gone", content |-> "standup",
    time |-> [h |-> 9, m |-> 0], days |-> <<>>],
   [user_id |-> "u1", channel_id |-> "ch1", content |-> "standup",
    time |-> [h |-> 9, m |-> 0], days |-> <<7>>]}
ChannelCache == {"ch1"}                 \* client.channels.cache at start
Channels == ChannelCache \cup {"gone"}  \* "gone" is not in the cache
Contents == {"standup"}
ClockDays == {0, 1, 2, 3}
ClockTimes == {[h |-> 9, m |-> 0], [h |-> 9, m |-> 1]}
MaxAges == {0, 1}                       \* maxAge of a rotation, in days
SendOutcomes == {"sent", "threw"}       \* channel.send resolves or rejects
Tokens == {"secret", "wrong"}
LogsToken == "secret"                   \* process.env.LOGS_TOKEN when set
Unset == "undefined"                    \* process.env.LOGS_TOKEN when not set
Absent == "absent"                      \* a request without x-logs-token

NullStr == "null"
Null == 0              \* SQL NULL in an INTEGER column (row ids start at 1)
Undefined == 0 - 1     \* the JavaScript value undefined where an id is read

VARIABLES
  readyPc,        \* 'ready' handler: "wait", "commands", "done"; or "crashed"
  loadPending,    \* db.all callbacks of loadScheduledItems not yet run
  listening,      \* app.listen has been called
  reminders,      \* table reminders: id -> row
  tasks,          \* table tasks: id -> row
  nextReminderId, \* AUTOINCREMENT of reminders
  nextTaskId,     \* AUTOINCREMENT of tasks
  jobs,           \* every cron job created: handle -> job
  cronJobs,       \* the Map cronJobs: key -> handle of a job
  pending,        \* jobs whose callback was invoked and has not finished
  sendLogs,       \* table send_logs, in insertion order
  activityLogs,   \* table activity_logs, in insertion order
  nextSendId,     \* AUTOINCREMENT of send_logs
  nextActivityId, \* AUTOINCREMENT of activity_logs
  logRotation,    \* table log_rotation, in insertion order
  now,            \* the current instant
  pager,          \* a client of GET /api/logs following nextCursor
  channelCache,   \* client.channels.cache: the channels the bot can see
  retryResponse,  \* HTTP status of the last answer of the retry route
  envLogsToken,   \* process.env.LOGS_TOKEN of the bot and of the dashboard
  insertError,    \* a failed INSERT of a create has its 'error' event queued
  logWriteError,  \* logSend's callback has printed 'Error logging send:'
  migratePc,      \* runMigrations: the step of the run that comes next
  columns,        \* the columns ALTER TABLE has added: <<table, column>>
  updatedAt,      \* updated_at of the rows where it is not NULL
  rotation,       \* Database.rotateLogs between its statements
  enhancedLogs,   \* table enhanced_logs, in insertion order
  logChannels,    \* table log_channels of the guild: category -> row
  logMessages,    \* the messages delivered to log channels
  enhancedCall    \* the last call of logEnhanced and how it ended

vars == <<readyPc, loadPending, listening, reminders, tasks, nextReminderId,
          nextTaskId, jobs, cronJobs, pending, sendLogs, activityLogs,
          nextSendId, nextActivityId, logRotation, now, pager, channelCache,
          retryResponse, envLogsToken, insertError, logWriteError,
          migratePc, columns, updatedAt, rotation, enhancedLogs,
          logChannels, logMessages, enhancedCall>>

startVars == <<readyPc, loadPending, listening>>
storeVars == <<reminders, tasks, nextReminderId, nextTaskId>>
registryVars == <<jobs, cronJobs>>
sendLogVars == <<sendLogs, nextSendId>>
activityLogVars == <<activityLogs, nextActivityId>>
configVars == <<envLogsToken>>
faultVars == <<insertError, logWriteError>>
schemaVars == <<migratePc, columns, updatedAt>>
rotateVars == <<rotation>>
enhancedVars == <<enhancedLogs, logChannels, logMessages, enhancedCall>>

\* ------------------------------------------------------------- migrations
\* runMigrations: the ALTER TABLE ... ADD COLUMN statements, in order
Migrations ==
  <<<<"tasks", "active">>, <<"tasks", "updated_at">>,
    <<"reminders", "active">>, <<"reminders", "updated_at">>,
    <<"send_logs", "retry_count">>, <<"activity_logs", "metadata">>>>

AllColumns == {Migrations[i] : i \in DOMAIN Migrations}

\* the steps of a run after the last migration
PopulateTasksPc == Len(Migrations) + 1
PopulateRemindersPc == Len(Migrations) + 2
Done == Len(Migrations) + 3

\* UPDATE <table> SET updated_at = ? on every row
BackfillEveryRow(map, table, ids, stamp) ==
  [k \in DOMAIN map \cup {<<table, i>> : i \in ids} |->
     IF k[1] = table /\ k[2] \in ids THEN stamp ELSE map[k]]

\* UPDATE <table> SET updated_at = ? WHERE updated_at IS NULL
Backfill(map, table, ids, stamp) ==
  [k \in DOMAIN map \cup {<<table, i>> : i \in ids} |->
     IF k \in DOMAIN map THEN map[k] ELSE stamp]

\* ------------------------------------------------------------- validation
\* /^([01]?[0-9]|2[0-3]):[0-5][0-9]$/ on the numerals of "HH:MM"
timeRegex(time) == time.h >= 0 /\ time.h <= 23 /\ time.m >= 0 /\ time.m <= 59

\* dayNumbers.every(day => !isNaN(num) && num >= 0 && num <= 6)
validDays(days) == \A i \in 1..Len(days) : days[i] >= 0 /\ days[i] <= 6

\* -------------------------------------------------------------- node-cron
\* `${minutes} ${hours} * * *` and `${minutes} ${hours} * * ${dayNumbers}`;
\* dow = <<>> stands for "*".
CronPattern(time, days) == [minute |-> time.m, hour |-> time.h, dow |-> days]

\* cron.schedule throws on a pattern that does not validate.
CronValid(p) ==
  /\ p.minute >= 0 /\ p.minute <= 59
  /\ p.hour >= 0 /\ p.hour <= 23
  /\ \A i \in 1..Len(p.dow) : p.dow[i] >= 0 /\ p.dow[i] <= 7

\* The job's pattern matches the minute (weekday d, time t); 7 is Sunday too.
CronMatches(p, d, t) ==
  /\ p.minute = t.m
  /\ p.hour = t.h
  /\ \/ p.dow = <<>>
     \/ \E i \in 1..Len(p.dow) : p.dow[i] % 7 = d

\* ----------------------------------------------------------------- sqlite3
\* const result = stmt.run(...); result.lastID: run returns the statement
\* itself and lastID is set on it only when a callback is given, after the
\* insert has run, so the synchronous read yields undefined.
StmtRunLastID(insertedId) == Undefined

\* checkStmt.get(id, user) without a callback returns the statement, never a
\* row and never undefined.
StmtGet(rows, id, user) == "statement"

\* x || null on an id: undefined and 0 become NULL
OrNullId(x) == IF x = Undefined \/ x = 0 THEN Null ELSE x

\* x || d on a text: the absent text becomes the default
OrDefault(x, d) == IF x = NullStr THEN d ELSE x

\* The data object handed to logSend / logActivity, absent keys as NULL.
SendData(source, channel, user, content, status, error, message, ref) ==
  [source |-> source, channel_id |-> channel, user_id |-> user,
   content |-> content, status |-> status, error |-> error,
   message_id |-> message, ref_id |-> ref]

ActivityData(source, channel, user, status, error, ref, action) ==
  [source |-> source, channel_id |-> channel, user_id |-> user,
   status |-> status, error |-> error, ref_id |-> ref, action |-> action]

\* Database.logSend: one INSERT INTO send_logs
LogSend(logs, id, kind, data, ts) ==
  Append(logs,
    [id |-> id, kind |-> kind, source |-> data.source,
     channel_id |-> data.channel_id, user_id |-> data.user_id,
     content |-> data.content, status |-> OrDefault(data.status, "success"),
     error |-> data.error, message_id |-> data.message_id,
     ref_id |-> OrNullId(data.ref_id), retry_count |-> 0, sent_at |-> ts])

\* Database.logActivity: one INSERT INTO activity_logs
LogActivity(logs, id, kind, data, ts) ==
  Append(logs,
    [id |-> id, kind |-> kind, source |-> data.source,
     channel_id |-> data.channel_id, user_id |-> data.user_id,
     status |-> OrDefault(data.status, "success"), error |-> data.error,
     message_id |-> NullStr, ref_id |-> OrNullId(data.ref_id),
     action |-> data.action, created_at |-> ts])

\* Room for one more row in a log table (the model's cap on the ids).
SendRoom == nextSendId <= MaxSendId
ActivityRoom == nextActivityId <= MaxActivityId

\* ---------------------------------------------------------------- registry
Registry == [jobs |-> jobs, cronJobs |-> cronJobs]

\* cronJobs.set(key, job)
MapSet(map, key, value) ==
  [k \in DOMAIN map \cup {key} |-> IF k = key THEN value ELSE map[k]]

\* cronJobs.delete(key)
MapDelete(map, key) == [k \in DOMAIN map \ {key} |-> map[k]]

\* A job object is named by its handle <<kind, row, origin>>: the row whose
\* INSERT preceded the call that created it, and whether a create handler
\* ("create") or the startup load ("load") made the call.
Handle(kind, row, origin) == <<kind, row, origin>>

\* scheduleReminder: cron.schedule, cronJobs.set, job.start.  The entry
\* already held under the key is replaced, the job it names is not stopped.
ScheduleReminder(reg, handle, id, content, channelId, userId, time) ==
  LET job == [kind |-> "reminder", id |-> id, content |-> content,
              channel_id |-> channelId, user_id |-> userId,
              pattern |-> CronPattern(time, <<>>), running |-> TRUE]
  IN [jobs |-> MapSet(reg.jobs, handle, job),
      cronJobs |-> MapSet(reg.cronJobs, <<"reminder", id>>, handle)]

\* scheduleTask: the days, when given, restrict the weekday
ScheduleTask(reg, handle, id, content, channelId, userId, time, days) ==
  LET job == [kind |-> "task", id |-> id, content |-> content,
              channel_id |-> channelId, user_id |-> userId,
              pattern |-> CronPattern(time, days), running |-> TRUE]
  IN [jobs |-> MapSet(reg.jobs, handle, job),
      cronJobs |-> MapSet(reg.cronJobs, <<"task", id>>, handle)]

\* Room for one more row in reminders or tasks (the model's cap).
ItemRoom == (nextReminderId - 1) + (nextTaskId - 1) < MaxItems

\* The rows of a table in id order, as SELECT * returns them.
RECURSIVE RowIds(_)
RowIds(ids) ==
  IF ids = {} THEN <<>>
  ELSE LET least == CHOOSE i \in ids : \A k \in ids : i <= k
       IN <<least>> \o RowIds(ids \ {least})

\* ------------------------------------------------------------------- Init
ReminderRow(content, channel, user, time) ==
  [content |-> content, channel_id |-> channel, user_id |-> user, time |-> time]

TaskRow(content, channel, user, time, days) ==
  [content |-> content, channel_id |-> channel, user_id |-> user,
   time |-> time, days |-> days]

\* The store as an earlier run left it: no row, or one row per table.
InitReminders ==
  {<<>>} \cup {<<ReminderRow(r.content, r.channel_id, r.user_id, r.time)>> :
                 r \in {x \in ReminderInputs : timeRegex(x.time)}}

InitTasks ==
  {<<>>} \cup {<<TaskRow(r.content, r.channel_id, r.user_id, r.time, r.days)>> :
                 r \in {x \in TaskInputs :
                          timeRegex(x.time) /\ validDays(x.days)}}

\* A query string parameter that is absent reads as the empty string.
NoFilter == [kind |-> "", status |-> "", channel_id |-> "", q |-> ""]
NoCursor == <<>>

\* The guild of the bot, the categories, subcategories and levels of the
\* events that are logged; NullStr is a level the caller left out
Guild == "g1"
LogCategories == {"reminders", "system"}
LogSubcategories == {"reminder_added", "bot_started"}
LogLevels == {"info", "error", NullStr}

\* logEnhanced was not called yet
NoCall ==
  [n |-> 0, outcome |-> "none", category |-> NullStr, subcategory |-> NullStr,
   level |-> NullStr, routing |-> "none"]

\* No rotation is between two of its statements
NoRotation == [pc |-> "idle", cutoff |-> 0, archived |-> 0, deleted |-> 0]

\* No retry was answered yet
NoResponse == 0

\* A client that has sent no request
IdlePager ==
  [filter |-> NoFilter, limit |-> 0, calls |-> 0, seen |-> <<>>,
   hasMore |-> FALSE, nextCursor |-> NoCursor, status |-> 0, first |-> {},
   query |-> <<>>]


Init ==
  /\ readyPc = "wait"
  /\ loadPending = {}
  /\ listening = FALSE
  /\ reminders \in InitReminders
  /\ tasks \in InitTasks
  /\ Len(reminders) + Len(tasks) <= MaxItems
  /\ nextReminderId = Len(reminders) + 1
  /\ nextTaskId = Len(tasks) + 1
  /\ jobs = <<>>
  /\ cronJobs = <<>>
  /\ pending = {}
  /\ sendLogs = <<>>
  /\ activityLogs = <<>>
  /\ nextSendId = 1
  /\ nextActivityId = 1
  /\ logRotation = <<>>
  /\ now = 0
  /\ pager = IdlePager
  /\ channelCache = ChannelCache
  /\ retryResponse = NoResponse
  /\ envLogsToken = LogsToken
  /\ insertError = FALSE
  /\ logWriteError = FALSE
  /\ rotation = NoRotation
  /\ enhancedLogs = <<>>
  /\ logChannels = <<>>
  /\ logMessages = <<>>
  /\ enhancedCall = NoCall
  /\ migratePc = Done
  /\ columns = AllColumns
  /\ updatedAt = <<>>

\* ---------------------------------------------------------- GET /api/logs
\* The filters a paging client sends
PageFilters ==
  {NoFilter, [NoFilter EXCEPT !.status = "failed"],
   [NoFilter EXCEPT !.kind = "send"]}

\* The proper infixes, among the texts a filter names, of a column text
Infixes == {<<"send_once", "send">>}

\* text LIKE '%pat%'; NULL LIKE ... is not true.  The filter text goes
\* into the pattern as it is, so a "%" in it is the wildcard of LIKE and
\* '%%%' matches every text.
Like(text, pat) ==
  text # NullStr /\ (pat = "%" \/ text = pat \/ <<text, pat>> \in Infixes)

\* content LIKE '%pat%' on a content made of text pieces
ContentLike(content, pat) == \E i \in 1..Len(content) : Like(content[i], pat)

\* The SELECT list over send_logs: sent_at as timestamp, 'send' as log_type
SendSelect(row) ==
  [id |-> row.id, kind |-> row.kind, source |-> row.source,
   channel_id |-> row.channel_id, user_id |-> row.user_id,
   content |-> row.content, status |-> row.status, error |-> row.error,
   message_id |-> row.message_id, ref_id |-> row.ref_id,
   timestamp |-> row.sent_at, log_type |-> "send"]

\* The SELECT list over activity_logs: '' as content, created_at as
\* timestamp, 'activity' as log_type
ActivitySelect(row) ==
  [id |-> row.id, kind |-> row.kind, source |-> row.source,
   channel_id |-> row.channel_id, user_id |-> row.user_id,
   content |-> <<>>, status |-> row.status, error |-> row.error,
   message_id |-> row.message_id, ref_id |-> row.ref_id,
   timestamp |-> row.created_at, log_type |-> "activity"]

\* The conditions pushed for the filters that are present
SendMatches(row, f) ==
  /\ f.kind # "" => Like(row.kind, f.kind)
  /\ f.status # "" => row.status = f.status
  /\ f.channel_id # "" => row.channel_id = f.channel_id
  /\ f.q # "" => \/ ContentLike(row.content, f.q)
                 \/ Like(row.kind, f.q)
                 \/ Like(row.error, f.q)

ActivityMatches(row, f) ==
  /\ f.kind # "" => Like(row.kind, f.kind)
  /\ f.status # "" => row.status = f.status
  /\ f.channel_id # "" => row.channel_id = f.channel_id
  /\ f.q # "" => Like(row.kind, f.q) \/ Like(row.error, f.q)

\* The decimal numeral of a number, as the sequence of its digits.  A
\* character of a text is a digit 0..9 or NonDigit.
NonDigit == 10

RECURSIVE Numeral(_)
Numeral(n) ==
  IF n < 10 THEN <<n>> ELSE Append(Numeral(n \div 10), n % 10)

\* `${lastItem.timestamp}_${lastItem.id}`: the pieces of the cursor text
CursorText(item) == <<item.timestamp, "_", Numeral(item.id)>>

\* The value parseInt gives for undefined and for a text with no numeral
NaN == [nan |-> TRUE, value |-> 0]

\* The number a sequence of digits writes
RECURSIVE NumeralValue(_)
NumeralValue(digits) ==
  IF digits = <<>> THEN 0
  ELSE NumeralValue(SubSeq(digits, 1, Len(digits) - 1)) * 10
       + digits[Len(digits)]

\* The sign a text may start with
Minus == 11

\* parseInt of a text: the number its sign and leading digits write, NaN
\* when no digit follows the optional sign
ParseInt(text) ==
  LET negative == text # <<>> /\ text[1] = Minus
      body == IF negative THEN Tail(text) ELSE text
      lead == {n \in 0..Len(body) : \A i \in 1..n : body[i] \in 0..9}
      n == CHOOSE k \in lead : \A l \in lead : l <= k
      magnitude == NumeralValue(SubSeq(body, 1, n))
  IN IF n = 0 THEN NaN
     ELSE [nan |-> FALSE,
           value |-> IF negative THEN 0 - magnitude ELSE magnitude]

\* cursor.split('_') and parseInt of the second part.  A timestamp holds no
\* underscore, so the parts are the pieces around the separator; the second
\* part of a cursor without separator is undefined.
SplitCursor(cursor) ==
  [timestamp |-> cursor[1],
   id |-> IF Len(cursor) >= 3 THEN ParseInt(cursor[3]) ELSE NaN]

\* The cursor condition with id <= ? in place of id < ?
AfterCursorInclusive(ts, id, cursor) ==
  \/ cursor = NoCursor
  \/ LET c == SplitCursor(cursor)
     IN \/ ts < c.timestamp
        \/ ts = c.timestamp /\ ~c.id.nan /\ id <= c.id.value

\* ((ts < ?) OR (ts = ? AND id < ?)), pushed when a cursor is given.  The
\* timestamps are texts of one fixed-width format, which compare as their
\* instants do.  NaN is bound as NULL, and id < NULL is not true.
AfterCursor(ts, id, cursor) ==
  \/ cursor = NoCursor
  \/ LET c == SplitCursor(cursor)
     IN \/ ts < c.timestamp
        \/ ts = c.timestamp /\ ~c.id.nan /\ id < c.id.value

\* new Date(timestamp).getTime(): increasing in the instant
GetTime(ts) == ts

\* The comparator of the sorts: a goes before b
Before(a, b) ==
  \/ GetTime(a.timestamp) > GetTime(b.timestamp)
  \/ GetTime(a.timestamp) = GetTime(b.timestamp) /\ a.id > b.id

Front(s) == SubSeq(s, 1, Len(s) - 1)
Last(s) == s[Len(s)]

\* x put into a sorted sequence behind the rows it does not go before
RECURSIVE Insert(_, _)
Insert(sorted, x) ==
  IF sorted = <<>> THEN <<x>>
  ELSE IF Before(x, Last(sorted))
       THEN Append(Insert(Front(sorted), x), Last(sorted))
       ELSE Append(sorted, x)

\* ORDER BY ... DESC, id DESC and Array.prototype.sort: a stable sort
RECURSIVE SortLogs(_)
SortLogs(s) ==
  IF s = <<>> THEN <<>> ELSE Insert(SortLogs(Front(s)), Last(s))

\* A slice that stops one element early
SliceShort(s, end) ==
  SubSeq(s, 1, IF end - 1 < Len(s) THEN end - 1 ELSE Len(s))

\* Array.prototype.slice(0, end)
Slice(s, end) ==
  IF end >= 0
  THEN SubSeq(s, 1, IF end < Len(s) THEN end ELSE Len(s))
  ELSE SubSeq(s, 1, IF Len(s) + end > 0 THEN Len(s) + end ELSE 0)

\* The two queries of a request, each with the filters and the cursor
SendRows(send, f, cursor) ==
  LET Qualifies(r) == SendMatches(r, f) /\ AfterCursor(r.timestamp, r.id, cursor)
  IN SortLogs(SelectSeq([i \in 1..Len(send) |-> SendSelect(send[i])],
                        Qualifies))

ActivityRows(activity, f, cursor) ==
  LET Qualifies(r) ==
        ActivityMatches(r, f) /\ AfterCursor(r.timestamp, r.id, cursor)
  IN SortLogs(SelectSeq(
       [i \in 1..Len(activity) |-> ActivitySelect(activity[i])], Qualifies))

\* The handler with the cursor of the next page taken from the row that
\* was fetched beyond the limit and dropped from the page.
GetLogsCursorOfDropped(send, activity, f, cursor, limit) ==
  LET allLogs == SortLogs(SendRows(send, f, cursor)
                          \o ActivityRows(activity, f, cursor))
      fetched == Slice(allLogs, limit + 1)
      hasMore == Len(fetched) > limit
      logs == IF hasMore THEN Front(fetched) ELSE fetched
  IN [logs |-> logs, hasMore |-> hasMore,
      nextCursor |-> IF hasMore /\ Len(logs) > 0
                     THEN CursorText(Last(fetched)) ELSE NoCursor,
      status |-> 200]

\* GET: both selections merged and sorted, limit + 1 rows sliced off, the
\* extra row popped, the cursor made of the last row of the page.  No
\* parameter is validated: the response is NextResponse.json of the page.
GetLogs(send, activity, f, cursor, limit) ==
  LET allLogs == SortLogs(SendRows(send, f, cursor)
                          \o ActivityRows(activity, f, cursor))
      fetched == Slice(allLogs, limit + 1)
      hasMore == Len(fetched) > limit
      logs == IF hasMore THEN Front(fetched) ELSE fetched
  IN [logs |-> logs, hasMore |-> hasMore,
      nextCursor |-> IF hasMore /\ Len(logs) > 0
                     THEN CursorText(Last(logs)) ELSE NoCursor,
      status |-> 200]

\* parseInt(searchParams.get('limit') || '50'): an absent or empty limit
\* is 50
ParseLimit(text) == ParseInt(IF text = <<>> THEN Numeral(50) ELSE text)

\* GET with the limit of the query string.  NaN + 1 is NaN, slice(0, NaN)
\* is empty and logs.length > NaN is false.
GetLogsOf(send, activity, f, cursor, text) ==
  LET limit == ParseLimit(text)
  IN IF limit.nan
     THEN [logs |-> <<>>, hasMore |-> FALSE, nextCursor |-> NoCursor,
           status |-> 200]
     ELSE GetLogs(send, activity, f, cursor, limit.value)

\* ---------------------------------------------------------------- startup
BotUp == readyPc # "crashed"

\* interactionCreate is delivered once the client is ready
SlashOpen == readyPc \in {"commands", "done"}

\* startBot: after client.login resolves, app.listen opens the HTTP API.
\* Nothing orders it with the 'ready' handler.
Listen ==
  /\ BotUp
  /\ ~listening
  /\ listening' = TRUE
  /\ UNCHANGED <<readyPc, loadPending, storeVars, registryVars, pending,
                 sendLogVars, activityLogVars, logRotation, now,
                 pager, channelCache, retryResponse, configVars, faultVars,
                 schemaVars, rotateVars,
                 enhancedVars>>

\* client.once('ready'): runs up to `await registerSlashCommands()`
Ready ==
  /\ readyPc = "wait"
  /\ readyPc' = "commands"
  /\ UNCHANGED <<loadPending, listening, storeVars, registryVars, pending,
                 sendLogVars, activityLogVars, logRotation, now,
                 pager, channelCache, retryResponse, configVars, faultVars,
                 schemaVars, rotateVars,
                 enhancedVars>>

\* loadScheduledItems queues its two db.all and returns; the 'ready' handler
\* then logs activity:bot_started.
LoadScheduledItems ==
  /\ readyPc = "commands"
  /\ ActivityRoom
  /\ readyPc' = "done"
  /\ loadPending' = {"reminders", "tasks"}
  /\ activityLogs' = LogActivity(activityLogs, nextActivityId,
       "activity:bot_started",
       ActivityData("discord_bot", NullStr, NullStr, NullStr, NullStr, Null,
                    NullStr), now)
  /\ nextActivityId' = nextActivityId + 1
  /\ UNCHANGED <<listening, storeVars, registryVars, pending, sendLogVars,
                 logRotation, now, pager, channelCache, retryResponse,
                 configVars, faultVars, schemaVars, rotateVars,
                 enhancedVars>>

\* reminders.forEach(reminder => scheduleReminder(...)) over the rows `ids`
RECURSIVE LoadReminders(_, _)
LoadReminders(reg, ids) ==
  IF ids = <<>> THEN reg
  ELSE LET r == reminders[Head(ids)]
       IN LoadReminders(
            ScheduleReminder(reg, Handle("reminder", Head(ids), "load"),
                             Head(ids), r.content, r.channel_id, r.user_id,
                             r.time),
            Tail(ids))

\* tasks.forEach(task => scheduleTask(...)) over the rows `ids`
RECURSIVE LoadTasks(_, _)
LoadTasks(reg, ids) ==
  IF ids = <<>> THEN reg
  ELSE LET r == tasks[Head(ids)]
       IN LoadTasks(
            ScheduleTask(reg, Handle("task", Head(ids), "load"), Head(ids),
                         r.content, r.channel_id, r.user_id, r.time, r.days),
            Tail(ids))

\* An exception thrown inside a db.all callback is uncaught: the process
\* ends, and with it the registry and the HTTP server.
Crash ==
  /\ readyPc' = "crashed"
  /\ loadPending' = {}
  /\ listening' = FALSE
  /\ jobs' = <<>>
  /\ cronJobs' = <<>>
  /\ pending' = {}

\* The callback of db.all('SELECT * FROM reminders')
LoadRemindersCallback ==
  /\ "reminders" \in loadPending
  /\ LET ids == RowIds(DOMAIN reminders)
         reg == LoadReminders(Registry, ids)
     IN IF \E i \in DOMAIN reminders :
             ~CronValid(CronPattern(reminders[i].time, <<>>))
        THEN Crash
        ELSE /\ jobs' = reg.jobs
             /\ cronJobs' = reg.cronJobs
             /\ loadPending' = loadPending \ {"reminders"}
             /\ UNCHANGED <<readyPc, listening, pending>>
  /\ UNCHANGED <<storeVars, sendLogVars, activityLogVars, logRotation, now,
                 pager, channelCache, retryResponse, configVars, faultVars,
                 schemaVars, rotateVars,
                 enhancedVars>>

\* The callback of db.all('SELECT * FROM tasks')
LoadTasksCallback ==
  /\ "tasks" \in loadPending
  /\ LET ids == RowIds(DOMAIN tasks)
         reg == LoadTasks(Registry, ids)
     IN IF \E i \in DOMAIN tasks :
             ~CronValid(CronPattern(tasks[i].time, tasks[i].days))
        THEN Crash
        ELSE /\ jobs' = reg.jobs
             /\ cronJobs' = reg.cronJobs
             /\ loadPending' = loadPending \ {"tasks"}
             /\ UNCHANGED <<readyPc, listening, pending>>
  /\ UNCHANGED <<storeVars, sendLogVars, activityLogVars, logRotation, now,
                 pager, channelCache, retryResponse, configVars, faultVars,
                 schemaVars, rotateVars,
                 enhancedVars>>

\* ------------------------------------------------------- HTTP API: creates
\* req.headers['x-logs-token'] of express: undefined when absent
BotHeader(token) == IF token = Absent THEN "undefined" ELSE token

\* request.headers.get('x-logs-token') of the dashboard: null when absent
DashHeader(token) == IF token = Absent THEN NullStr ELSE token

\* authenticateLogsToken: token !== process.env.LOGS_TOKEN rejects
Authorized(token) == BotHeader(token) = envLogsToken

\* The token check at the head of the dashboard's routes
DashAuthorized(token) == DashHeader(token) = envLogsToken

\* app.post('/add-reminder'): INSERT, scheduleReminder, logActivity, res.json.
\* stmt.run(...) of a create is given no callback: the handler goes on
\* whatever becomes of the INSERT.  When the statement fails (a NOT NULL
\* column bound to undefined, a locked database) no row is written and the
\* statement emits an 'error' event once the handler has returned.
InsertOutcomes == {"ok", "fails"}

\* the job a create makes is named after the row of its INSERT; a failed
\* INSERT has no row
Origin(insert) == IF insert = "ok" THEN "create" ELSE "orphan"

InsertReminder(insert, row) ==
  IF insert = "ok"
  THEN /\ reminders' = MapSet(reminders, nextReminderId, row)
       /\ nextReminderId' = nextReminderId + 1
       /\ UNCHANGED <<tasks, nextTaskId, insertError>>
  ELSE /\ ~insertError
       /\ insertError' = TRUE
       /\ UNCHANGED storeVars

InsertTask(insert, row) ==
  IF insert = "ok"
  THEN /\ tasks' = MapSet(tasks, nextTaskId, row)
       /\ nextTaskId' = nextTaskId + 1
       /\ UNCHANGED <<reminders, nextReminderId, insertError>>
  ELSE /\ ~insertError
       /\ insertError' = TRUE
       /\ UNCHANGED storeVars

\* A throw of cron.schedule is caught after the INSERT was queued.
HttpAddReminderWith(token, content, channelId, userId, time, insert) ==
  /\ listening
  /\ IF ~Authorized(token)
     THEN UNCHANGED <<storeVars, registryVars, activityLogVars,
                      insertError>>
     ELSE /\ ItemRoom
          /\ InsertReminder(insert,
                            ReminderRow(content, channelId, userId, time))
          /\ LET lastID == StmtRunLastID(nextReminderId)
                 reg == ScheduleReminder(Registry,
                          Handle("reminder", nextReminderId, Origin(insert)),
                          lastID, content, channelId, userId, time)
             IN IF ~CronValid(CronPattern(time, <<>>))
                THEN UNCHANGED <<registryVars, activityLogVars>>
                ELSE /\ ActivityRoom
                     /\ jobs' = reg.jobs
                     /\ cronJobs' = reg.cronJobs
                     /\ activityLogs' = LogActivity(activityLogs, nextActivityId,
                          "activity:reminder_added",
                          ActivityData("http_api", channelId, userId, NullStr,
                                       NullStr, lastID, NullStr), now)
                     /\ nextActivityId' = nextActivityId + 1
  /\ UNCHANGED <<startVars, pending, sendLogVars, logRotation, now,
                 pager, channelCache, retryResponse, configVars,
                 logWriteError, schemaVars, rotateVars,
                 enhancedVars>>

HttpAddReminder(token, content, channelId, userId, time) ==
  HttpAddReminderWith(token, content, channelId, userId, time, "ok")

\* app.post('/add-task')
HttpAddTaskWith(token, content, channelId, userId, time, days, insert) ==
  /\ listening
  /\ IF ~Authorized(token)
     THEN UNCHANGED <<storeVars, registryVars, activityLogVars,
                      insertError>>
     ELSE /\ ItemRoom
          /\ InsertTask(insert,
                        TaskRow(content, channelId, userId, time, days))
          /\ LET lastID == StmtRunLastID(nextTaskId)
                 reg == ScheduleTask(Registry,
                          Handle("task", nextTaskId, Origin(insert)),
                          lastID, content, channelId, userId, time, days)
             IN IF ~CronValid(CronPattern(time, days))
                THEN UNCHANGED <<registryVars, activityLogVars>>
                ELSE /\ ActivityRoom
                     /\ jobs' = reg.jobs
                     /\ cronJobs' = reg.cronJobs
                     /\ activityLogs' = LogActivity(activityLogs, nextActivityId,
                          "activity:task_added",
                          ActivityData("http_api", channelId, userId, NullStr,
                                       NullStr, lastID, NullStr), now)
                     /\ nextActivityId' = nextActivityId + 1
  /\ UNCHANGED <<startVars, pending, sendLogVars, logRotation, now,
                 pager, channelCache, retryResponse, configVars,
                 logWriteError, schemaVars, rotateVars,
                 enhancedVars>>

HttpAddTask(token, content, channelId, userId, time, days) ==
  HttpAddTaskWith(token, content, channelId, userId, time, days, "ok")

\* --------------------------------------------------------- slash commands
\* handleAddReminder: the time is validated before the INSERT
HandleAddReminder(userId, channelId, content, time) ==
  /\ SlashOpen
  /\ IF ~timeRegex(time)
     THEN UNCHANGED <<storeVars, registryVars, activityLogVars>>
     ELSE /\ ItemRoom
          /\ ActivityRoom
          /\ reminders' = MapSet(reminders, nextReminderId,
                                 ReminderRow(content, channelId, userId, time))
          /\ nextReminderId' = nextReminderId + 1
          /\ UNCHANGED <<tasks, nextTaskId>>
          /\ LET lastID == StmtRunLastID(nextReminderId)
                 reg == ScheduleReminder(Registry,
                          Handle("reminder", nextReminderId, "create"),
                          lastID, content, channelId, userId, time)
             IN /\ jobs' = reg.jobs
                /\ cronJobs' = reg.cronJobs
                /\ activityLogs' = LogActivity(activityLogs, nextActivityId,
                     "activity:reminder_added",
                     ActivityData("discord_slash", channelId, userId, "success",
                                  NullStr, lastID, "add_reminder"), now)
                /\ nextActivityId' = nextActivityId + 1
  /\ UNCHANGED <<startVars, pending, sendLogVars, logRotation, now,
                 pager, channelCache, retryResponse, configVars, faultVars,
                 schemaVars, rotateVars,
                 enhancedVars>>

\* handleAddTask: the time and the days are validated before the INSERT
HandleAddTaskWith(userId, channelId, content, time, days, insert) ==
  /\ SlashOpen
  /\ IF ~timeRegex(time)
     THEN UNCHANGED <<storeVars, registryVars, activityLogVars,
                      insertError>>
     ELSE IF days # <<>> /\ ~validDays(days)
     THEN UNCHANGED <<storeVars, registryVars, activityLogVars,
                      insertError>>
     ELSE /\ ItemRoom
          /\ ActivityRoom
          /\ InsertTask(insert,
                        TaskRow(content, channelId, userId, time, days))
          /\ LET lastID == StmtRunLastID(nextTaskId)
                 reg == ScheduleTask(Registry,
                          Handle("task", nextTaskId, Origin(insert)),
                          lastID, content, channelId, userId, time, days)
             IN /\ jobs' = reg.jobs
                /\ cronJobs' = reg.cronJobs
                /\ activityLogs' = LogActivity(activityLogs, nextActivityId,
                     "activity:task_added",
                     ActivityData("discord_slash", channelId, userId, "success",
                                  NullStr, lastID, "add_task"), now)
                /\ nextActivityId' = nextActivityId + 1
  /\ UNCHANGED <<startVars, pending, sendLogVars, logRotation, now,
                 pager, channelCache, retryResponse, configVars,
                 logWriteError, schemaVars, rotateVars,
                 enhancedVars>>

HandleAddTask(userId, channelId, content, time, days) ==
  HandleAddTaskWith(userId, channelId, content, time, days, "ok")

\* job.stop() on the job held under `key`
StopJob(js, j) == [js EXCEPT ![j].running = FALSE]

\* A removal that looks for the jobs of the row instead of the key
UnregisterByRow(reg, key) ==
  [jobs |-> [j \in DOMAIN reg.jobs |->
               IF j[1] = key[1] /\ j[2] = key[2]
               THEN [reg.jobs[j] EXCEPT !.running = FALSE]
               ELSE reg.jobs[j]],
   cronJobs |-> MapDelete(reg.cronJobs, key)]

\* if (cronJobs.has(key)) { cronJobs.get(key).stop(); cronJobs.delete(key) }
Unregister(reg, key) ==
  IF key \in DOMAIN reg.cronJobs
  THEN [jobs |-> StopJob(reg.jobs, reg.cronJobs[key]),
        cronJobs |-> MapDelete(reg.cronJobs, key)]
  ELSE reg

\* handleDeleteReminder: the ownership check reads the statement object, so
\* the not-found branch is never taken; DELETE ... WHERE id = ?; the trigger
\* under reminder_<id> is stopped and removed.
HandleDeleteReminder(userId, channelId, reminderId) ==
  /\ SlashOpen
  /\ LET reminder == StmtGet(reminders, reminderId, userId)
         key == <<"reminder", reminderId>>
     IN IF reminder = NullStr
        THEN UNCHANGED <<storeVars, registryVars, activityLogVars>>
        ELSE /\ ActivityRoom
             /\ reminders' = MapDelete(reminders, reminderId)
             /\ UNCHANGED <<tasks, nextReminderId, nextTaskId>>
             /\ LET reg == Unregister(Registry, key)
                IN /\ jobs' = reg.jobs
                   /\ cronJobs' = reg.cronJobs
             /\ activityLogs' = LogActivity(activityLogs, nextActivityId,
                  "activity:reminder_deleted",
                  ActivityData("discord_slash", channelId, userId, "success",
                               NullStr, reminderId, "delete_reminder"), now)
             /\ nextActivityId' = nextActivityId + 1
  /\ UNCHANGED <<startVars, pending, sendLogVars, logRotation, now,
                 pager, channelCache, retryResponse, configVars, faultVars,
                 schemaVars, rotateVars,
                 enhancedVars>>

\* ---------------------------------------------------------------- firing
\* The templates `**Reminder:** ${content}` and `**Task:** ${content}`
Template(kind, content) ==
  IF kind = "reminder" THEN <<"**Reminder:** ", content>>
  ELSE <<"**Task:** ", content>>

MessageId == "msg"        \* message.id of a sent message
ErrorMessage == "error"   \* error.message of a rejected send

\* node-cron: at the minute (weekday d, time t) every running job whose
\* pattern matches has its callback invoked, once.
Tick(d, t) ==
  /\ BotUp
  /\ pending = {}
  /\ pending' = {j \in DOMAIN jobs :
                   jobs[j].running /\ CronMatches(jobs[j].pattern, d, t)}
  /\ UNCHANGED <<startVars, storeVars, registryVars, sendLogVars,
                 activityLogVars, logRotation, now, pager, channelCache,
                 retryResponse, configVars, faultVars, schemaVars, rotateVars,
                 enhancedVars>>

\* logSend's stmt.run has a callback that prints the error of a failed
\* INSERT and does nothing else
WriteOutcomes == {"ok", "fails"}

\* A callback in which a failed log write lands in the catch block
FireJobLogThrows(j, outcome, write) ==
  /\ j \in pending
  /\ pending' = pending \ {j}
  /\ LET job == jobs[j]
         text == Template(job.kind, job.content)
     IN IF job.channel_id \notin channelCache
        THEN UNCHANGED <<sendLogVars, logWriteError>>
        ELSE /\ SendRoom
             /\ nextSendId' = nextSendId + 1
             /\ sendLogs' = LogSend(sendLogs, nextSendId, job.kind,
                  IF outcome = "sent" /\ write = "ok"
                  THEN SendData("cron", job.channel_id, job.user_id, text,
                                "sent", NullStr, MessageId, job.id)
                  ELSE SendData("cron", job.channel_id, job.user_id, text,
                                "failed", ErrorMessage, NullStr, job.id),
                  now)
             /\ logWriteError' = (logWriteError \/ write = "fails")
  /\ UNCHANGED <<startVars, storeVars, registryVars, activityLogVars,
                 logRotation, now, pager, channelCache, retryResponse,
                 configVars, insertError, schemaVars, rotateVars,
                 enhancedVars>>

\* The cron callback of scheduleReminder / scheduleTask for job j: nothing
\* at all when the channel is not in the cache; otherwise the send and one
\* logSend, 'sent' or 'failed'.
FireJobWith(j, outcome, write) ==
  /\ j \in pending
  /\ pending' = pending \ {j}
  /\ LET job == jobs[j]
         text == Template(job.kind, job.content)
     IN IF job.channel_id \notin channelCache
        THEN UNCHANGED <<sendLogVars, logWriteError>>
        ELSE IF write = "fails"
        THEN /\ logWriteError' = TRUE
             /\ UNCHANGED sendLogVars
        ELSE /\ SendRoom
             /\ nextSendId' = nextSendId + 1
             /\ sendLogs' = LogSend(sendLogs, nextSendId, job.kind,
                  IF outcome = "sent"
                  THEN SendData("cron", job.channel_id, job.user_id, text,
                                "sent", NullStr, MessageId, job.id)
                  ELSE SendData("cron", job.channel_id, job.user_id, text,
                                "failed", ErrorMessage, NullStr, job.id),
                  now)
             /\ UNCHANGED logWriteError
  /\ UNCHANGED <<startVars, storeVars, registryVars, activityLogVars,
                 logRotation, now, pager, channelCache, retryResponse,
                 configVars, insertError, schemaVars, rotateVars,
                 enhancedVars>>

\* A callback that stops its own job when the delivery fails
FireJobStopsFailed(j, outcome) ==
  /\ j \in pending
  /\ pending' = pending \ {j}
  /\ LET job == jobs[j]
         text == Template(job.kind, job.content)
     IN IF job.channel_id \notin channelCache
        THEN UNCHANGED sendLogVars
        ELSE /\ SendRoom
             /\ nextSendId' = nextSendId + 1
             /\ sendLogs' = LogSend(sendLogs, nextSendId, job.kind,
                  IF outcome = "sent"
                  THEN SendData("cron", job.channel_id, job.user_id, text,
                                "sent", NullStr, MessageId, job.id)
                  ELSE SendData("cron", job.channel_id, job.user_id, text,
                                "failed", ErrorMessage, NullStr, job.id),
                  now)
  /\ jobs' = IF outcome = "sent" /\ jobs[j].channel_id \in channelCache
             THEN jobs ELSE StopJob(jobs, j)
  /\ UNCHANGED <<startVars, storeVars, cronJobs, activityLogVars,
                 logRotation, now, pager, channelCache, retryResponse,
                 configVars, faultVars, schemaVars, rotateVars,
                 enhancedVars>>

\* the callback when the log write goes through
FireJob(j, outcome) == FireJobWith(j, outcome, "ok")

\* -------------------------------------------------------------- /send-once
\* The body of app.post('/send-once') past the token check: no log at all
\* when the channel is not in the cache (404), else the send and one logSend.
SendOnceBody(content, channelId, outcome) ==
  IF channelId \notin channelCache
  THEN UNCHANGED sendLogVars
  ELSE /\ SendRoom
       /\ nextSendId' = nextSendId + 1
       /\ IF outcome = "sent"
          THEN /\ sendLogs' = LogSend(sendLogs, nextSendId, "send_once",
                    SendData("http_api", channelId, NullStr, content, "sent",
                             NullStr, MessageId, Null), now)
          ELSE /\ sendLogs' = LogSend(sendLogs, nextSendId, "send_once",
                    SendData("http_api", channelId, NullStr, content, "failed",
                             ErrorMessage, NullStr, Null), now)

\* app.post('/send-once')
SendOnce(token, content, channelId, outcome) ==
  /\ listening
  /\ IF ~Authorized(token)
     THEN UNCHANGED sendLogVars
     ELSE SendOnceBody(content, channelId, outcome)
  /\ UNCHANGED <<startVars, storeVars, registryVars, pending,
                 activityLogVars, logRotation, now, pager, channelCache,
                 retryResponse, configVars, faultVars, schemaVars, rotateVars,
                 enhancedVars>>

\* ------------------------------------------------ POST /api/logs/[id]/retry
\* A lookup by id alone, whatever the status of the entry
FailedLogAnyStatus(logId) ==
  {i \in 1..Len(sendLogs) : sendLogs[i].id = logId}

\* SELECT * FROM send_logs WHERE id = ? AND status = "failed"
FailedLog(logId) ==
  {i \in 1..Len(sendLogs) :
     sendLogs[i].id = logId /\ sendLogs[i].status = "failed"}

\* A retry that records its outcome on the failed entry itself (status,
\* error, message_id, retry_count) instead of appending a row.
RetryInPlace(token, logId, outcome) ==
  /\ DashAuthorized(token)
  /\ FailedLog(logId) # {}
  /\ LET i == CHOOSE k \in FailedLog(logId) : TRUE
     IN /\ sendLogs[i].kind \in {"reminder", "task"}
        /\ sendLogs' = [sendLogs EXCEPT
              ![i].status = IF outcome = "sent" THEN "sent" ELSE "failed",
              ![i].message_id = IF outcome = "sent" THEN MessageId ELSE NullStr,
              ![i].retry_count = @ + 1]
  /\ retryResponse' = 200
  /\ UNCHANGED <<startVars, storeVars, registryVars, pending, nextSendId,
                 activityLogVars, logRotation, now, pager, channelCache,
                 configVars, faultVars, schemaVars, rotateVars,
                 enhancedVars>>

\* The dashboard's retry: the failed entry, then the reminder or task row
\* of its ref_id, then the bot's /send-once with the rebuilt template.  A
\* bot response that is not ok, and a bot that is not reachable, end in 500.
Retry(token, logId, outcome) ==
  /\ IF ~DashAuthorized(token)
     THEN /\ retryResponse' = 401
          /\ UNCHANGED sendLogVars
     ELSE IF FailedLog(logId) = {}
     THEN /\ retryResponse' = 404
          /\ UNCHANGED sendLogVars
     ELSE LET log == sendLogs[CHOOSE i \in FailedLog(logId) : TRUE]
              rows == IF log.kind = "reminder" THEN reminders ELSE tasks
          IN IF log.kind \notin {"reminder", "task"}
             THEN /\ retryResponse' = 400
                  /\ UNCHANGED sendLogVars
             ELSE IF log.ref_id = Null
             THEN /\ retryResponse' = 400
                  /\ UNCHANGED sendLogVars
             ELSE IF log.ref_id \notin DOMAIN rows
             THEN /\ retryResponse' = 404
                  /\ UNCHANGED sendLogVars
             ELSE IF ~listening
             THEN /\ retryResponse' = 500
                  /\ UNCHANGED sendLogVars
             ELSE /\ SendOnceBody(Template(log.kind, rows[log.ref_id].content),
                                  rows[log.ref_id].channel_id, outcome)
                  /\ retryResponse' =
                       IF /\ rows[log.ref_id].channel_id \in channelCache
                          /\ outcome = "sent"
                       THEN 200 ELSE 500
  /\ UNCHANGED <<startVars, storeVars, registryVars, pending,
                 activityLogVars, logRotation, now, pager, channelCache,
                 configVars, faultVars, schemaVars, rotateVars,
                 enhancedVars>>

\* ---------------------------------------------------------------- rotation
\* The calendar day of an instant
DateOf(ts) == ts \div TicksPerDay

\* `sent_at < ?` compares the column text 'YYYY-MM-DD HH:MM:SS' with the ISO
\* text 'YYYY-MM-DDTHH:MM:SS.sssZ' of the cutoff: on equal dates the space
\* sorts before the 'T'.
TextLess(ts, cutoff) == DateOf(ts) <= DateOf(cutoff)

\* cutoffDate.setDate(cutoffDate.getDate() - maxAge)
Cutoff(maxAge) == now - maxAge * TicksPerDay

OldSend(cutoff) ==
  {i \in 1..Len(sendLogs) : TextLess(sendLogs[i].sent_at, cutoff)}

OldActivity(cutoff) ==
  {i \in 1..Len(activityLogs) : TextLess(activityLogs[i].created_at, cutoff)}

\* The rows of `logs` other than those at the positions `old`
RECURSIVE Without(_, _, _)
Without(logs, old, i) ==
  IF i > Len(logs) THEN <<>>
  ELSE (IF i \in old THEN <<>> ELSE <<logs[i]>>) \o Without(logs, old, i + 1)

\* A rotation that resets the id counter of send_logs
RotateBodyResetsSequence(maxAge) ==
  LET cutoff == Cutoff(maxAge)
      archived == Cardinality(OldSend(cutoff)) + Cardinality(OldActivity(cutoff))
      kept == IF archived = 0 THEN activityLogs
              ELSE Without(activityLogs, OldActivity(cutoff), 1)
  IN /\ ActivityRoom
     /\ IF archived = 0
        THEN UNCHANGED <<sendLogs, logRotation>>
        ELSE /\ Len(logRotation) < MaxRotations
             /\ sendLogs' = Without(sendLogs, OldSend(cutoff), 1)
             /\ logRotation' = Append(logRotation,
                  [table_name |-> "logs_combined",
                   records_archived |-> archived, rotated_at |-> now])
     /\ activityLogs' = LogActivity(kept, nextActivityId,
          "activity:logs_rotated",
          ActivityData("http_api", NullStr, NullStr, "success", NullStr, Null,
                       NullStr), now)
     /\ nextActivityId' = nextActivityId + 1
     /\ nextSendId' = 1

\* Database.rotateLogs followed by the handler's logActivity: the count of
\* both tables, nothing more when it is 0, else the two DELETEs and one
\* log_rotation row; the handler then logs activity:logs_rotated.
RotateBody(maxAge) ==
  LET cutoff == Cutoff(maxAge)
      archived == Cardinality(OldSend(cutoff)) + Cardinality(OldActivity(cutoff))
      kept == IF archived = 0 THEN activityLogs
              ELSE Without(activityLogs, OldActivity(cutoff), 1)
  IN /\ ActivityRoom
     /\ IF archived = 0
        THEN UNCHANGED <<sendLogs, logRotation>>
        ELSE /\ Len(logRotation) < MaxRotations
             /\ sendLogs' = Without(sendLogs, OldSend(cutoff), 1)
             /\ logRotation' = Append(logRotation,
                  [table_name |-> "logs_combined",
                   records_archived |-> archived, rotated_at |-> now])
     /\ activityLogs' = LogActivity(kept, nextActivityId,
          "activity:logs_rotated",
          ActivityData("http_api", NullStr, NullStr, "success", NullStr, Null,
                       NullStr), now)
     /\ nextActivityId' = nextActivityId + 1
     /\ UNCHANGED nextSendId

\* app.post('/rotate-logs')
RotateLogs(token, maxAge) ==
  /\ listening
  /\ IF ~Authorized(token)
     THEN UNCHANGED <<sendLogVars, activityLogVars, logRotation>>
     ELSE RotateBody(maxAge)
  /\ UNCHANGED <<startVars, storeVars, registryVars, pending, now,
                 pager, channelCache, retryResponse, configVars, faultVars,
                 schemaVars, rotateVars,
                 enhancedVars>>

\* Database.rotateLogs statement by statement: each statement is issued
\* from the callback of the one before it, so the statements of other
\* handlers run in between.  First the two COUNTs with the cutoff of the
\* call; a count of 0 resolves at once and the handler logs the rotation.
RotateCount(token, maxAge) ==
  /\ listening
  /\ Authorized(token)
  /\ rotation.pc = "idle"
  /\ LET cutoff == Cutoff(maxAge)
         archived == Cardinality(OldSend(cutoff))
                     + Cardinality(OldActivity(cutoff))
     IN IF archived = 0
        THEN /\ ActivityRoom
             /\ activityLogs' = LogActivity(activityLogs, nextActivityId,
                  "activity:logs_rotated",
                  ActivityData("http_api", NullStr, NullStr, "success",
                               NullStr, Null, NullStr), now)
             /\ nextActivityId' = nextActivityId + 1
             /\ rotation' = NoRotation
        ELSE /\ rotation' = [pc |-> "delete", cutoff |-> cutoff,
                             archived |-> archived, deleted |-> 0]
             /\ UNCHANGED activityLogVars
  /\ UNCHANGED <<startVars, storeVars, registryVars, pending, sendLogVars,
                 logRotation, now, pager, channelCache, retryResponse,
                 configVars, faultVars, schemaVars,
                 enhancedVars>>

\* the two DELETEs, with the cutoff of the call; `deleted` keeps how many
\* rows they removed
RotateDelete ==
  /\ rotation.pc = "delete"
  /\ sendLogs' = Without(sendLogs, OldSend(rotation.cutoff), 1)
  /\ activityLogs' = Without(activityLogs, OldActivity(rotation.cutoff), 1)
  /\ rotation' = [rotation EXCEPT
                    !.pc = "mark",
                    !.deleted = Cardinality(OldSend(rotation.cutoff))
                                + Cardinality(OldActivity(rotation.cutoff))]
  /\ UNCHANGED <<startVars, storeVars, registryVars, pending, nextSendId,
                 nextActivityId, logRotation, now, pager, channelCache,
                 retryResponse, configVars, faultVars, schemaVars,
                 enhancedVars>>

\* the INSERT INTO log_rotation with the count taken at the start, then
\* resolve(archived) and the handler's logActivity
RotateMark ==
  /\ rotation.pc = "mark"
  /\ Len(logRotation) < MaxRotations
  /\ ActivityRoom
  /\ logRotation' = Append(logRotation,
       [table_name |-> "logs_combined",
        records_archived |-> rotation.archived, rotated_at |-> now])
  /\ activityLogs' = LogActivity(activityLogs, nextActivityId,
       "activity:logs_rotated",
       ActivityData("http_api", NullStr, NullStr, "success", NullStr, Null,
                    NullStr), now)
  /\ nextActivityId' = nextActivityId + 1
  /\ rotation' = [rotation EXCEPT !.pc = "idle"]
  /\ UNCHANGED <<startVars, storeVars, registryVars, pending, sendLogVars,
                 now, pager, channelCache, retryResponse, configVars,
                 faultVars, schemaVars,
                 enhancedVars>>

\* POST /api/logs/rotate: the dashboard forwards to the bot's /rotate-logs
DashRotate(token, maxAge) ==
  /\ IF ~DashAuthorized(token)
     THEN UNCHANGED <<sendLogVars, activityLogVars, logRotation>>
     ELSE IF ~listening
     THEN UNCHANGED <<sendLogVars, activityLogVars, logRotation>>
     ELSE RotateBody(maxAge)
  /\ UNCHANGED <<startVars, storeVars, registryVars, pending, now,
                 pager, channelCache, retryResponse, configVars, faultVars,
                 schemaVars, rotateVars,
                 enhancedVars>>

\* ------------------------------------------------- DELETE /api/logs/clear
\* A clear that empties log_rotation as well
ClearLogsAndMarkers(token) ==
  /\ IF ~DashAuthorized(token)
     THEN UNCHANGED <<sendLogVars, activityLogVars, logRotation>>
     ELSE /\ sendLogs' = <<>>
          /\ activityLogs' = <<>>
          /\ nextSendId' = 1
          /\ nextActivityId' = 1
          /\ logRotation' = <<>>
  /\ UNCHANGED <<startVars, storeVars, registryVars, pending, now,
                 pager, channelCache, retryResponse, configVars, faultVars,
                 schemaVars, rotateVars,
                 enhancedVars>>

\* Both log tables emptied and their sqlite_sequence rows deleted
ClearLogs(token) ==
  /\ IF ~DashAuthorized(token)
     THEN UNCHANGED <<sendLogVars, activityLogVars>>
     ELSE /\ sendLogs' = <<>>
          /\ activityLogs' = <<>>
          /\ nextSendId' = 1
          /\ nextActivityId' = 1
  /\ UNCHANGED <<startVars, storeVars, registryVars, pending, logRotation, now,
                 pager, channelCache, retryResponse, configVars, faultVars,
                 schemaVars, rotateVars,
                 enhancedVars>>

\* --------------------------------------------------------- POST /api/logs
\* One INSERT INTO activity_logs from the request body
CreateLog(token, kind, status, refId) ==
  /\ IF ~DashAuthorized(token)
     THEN UNCHANGED activityLogVars
     ELSE /\ ActivityRoom
          /\ activityLogs' = LogActivity(activityLogs, nextActivityId, kind,
               ActivityData(NullStr, NullStr, NullStr, status, NullStr, refId,
                            NullStr), now)
          /\ nextActivityId' = nextActivityId + 1
  /\ UNCHANGED <<startVars, storeVars, registryVars, pending, sendLogVars,
                 logRotation, now, pager, channelCache, retryResponse,
                 configVars, faultVars, schemaVars, rotateVars,
                 enhancedVars>>

\* ------------------------------------------------ a client of GET /api/logs
\* The rows in the two tables that pass the filters f, as the queries of a
\* request without cursor select them
StoredRows(f) ==
  LET rows == SendRows(sendLogs, f, NoCursor)
              \o ActivityRows(activityLogs, f, NoCursor)
  IN {rows[i] : i \in 1..Len(rows)}

\* The first request carries no cursor, each later one the nextCursor of
\* the response before it; the client stops at hasMore = false.  The
\* field `first` keeps the rows that were stored when the first request
\* was answered.
FetchPage ==
  /\ pager.limit > 0
  /\ pager.calls = 0 \/ (pager.hasMore /\ pager.nextCursor # NoCursor)
  /\ LET r == GetLogs(sendLogs, activityLogs, pager.filter, pager.nextCursor,
                      pager.limit)
     IN pager' = [pager EXCEPT !.calls = @ + 1,
                               !.seen = @ \o r.logs,
                               !.hasMore = r.hasMore,
                               !.nextCursor = r.nextCursor,
                               !.status = r.status,
                               !.first = IF pager.calls = 0
                                         THEN StoredRows(pager.filter)
                                         ELSE @]
  /\ UNCHANGED <<startVars, storeVars, registryVars, pending, sendLogVars,
                 activityLogVars, logRotation, now, channelCache,
                 retryResponse, configVars, faultVars, schemaVars, rotateVars,
                 enhancedVars>>

\* A request whose cursor is not one the handler gave out: the client's
\* first request, with a cursor of its own making.
FetchCursor(cursor) ==
  /\ pager.limit > 0
  /\ pager.calls = 0
  /\ LET r == GetLogs(sendLogs, activityLogs, pager.filter, cursor,
                      pager.limit)
     IN pager' = [pager EXCEPT !.calls = @ + 1,
                               !.seen = @ \o r.logs,
                               !.hasMore = r.hasMore,
                               !.nextCursor = r.nextCursor,
                               !.status = r.status,
                               !.first = IF pager.calls = 0
                                         THEN StoredRows(pager.filter)
                                         ELSE @]
  /\ UNCHANGED <<startVars, storeVars, registryVars, pending, sendLogVars,
                 activityLogVars, logRotation, now, channelCache,
                 retryResponse, configVars, faultVars, schemaVars, rotateVars,
                 enhancedVars>>

\* A first request with a limit of the client's own writing
FetchLimit(text) ==
  /\ pager.calls = 0
  /\ LET r == GetLogsOf(sendLogs, activityLogs, pager.filter, NoCursor, text)
     IN pager' = [pager EXCEPT !.calls = @ + 1,
                               !.query = text,
                               !.seen = r.logs,
                               !.hasMore = r.hasMore,
                               !.nextCursor = r.nextCursor,
                               !.status = r.status,
                               !.first = StoredRows(pager.filter)]
  /\ UNCHANGED <<startVars, storeVars, registryVars, pending, sendLogVars,
                 activityLogVars, logRotation, now, channelCache,
                 retryResponse, configVars, faultVars, schemaVars, rotateVars,
                 enhancedVars>>

\* ------------------------------------------------------- enhanced logging
\* `${category}:${subcategory}`
KindText(category, subcategory) ==
  CASE category = "reminders" /\ subcategory = "reminder_added"
         -> "reminders:reminder_added"
    [] category = "reminders" /\ subcategory = "bot_started"
         -> "reminders:bot_started"
    [] category = "system" /\ subcategory = "reminder_added"
         -> "system:reminder_added"
    [] category = "system" /\ subcategory = "bot_started"
         -> "system:bot_started"

\* UPDATE enhanced_logs SET discord_sent = 1, discord_message_id = ?
\* WHERE id = ?; an undefined id is bound as NULL and matches no row
MarkSent(logs, logId, messageId) ==
  [i \in DOMAIN logs |->
     IF logId # Undefined /\ logs[i].id = logId
     THEN [logs[i] EXCEPT !.discord_sent = 1, !.discord_message_id = messageId]
     ELSE logs[i]]

\* UPDATE enhanced_logs SET discord_sent = 0 WHERE id = ?
MarkFailed(logs, logId) ==
  [i \in DOMAIN logs |->
     IF logId # Undefined /\ logs[i].id = logId
     THEN [logs[i] EXCEPT !.discord_sent = 0]
     ELSE logs[i]]

\* channels.find(c => c.category === logData.category && c.enabled)
FindConfig(channels, category) ==
  IF category \in DOMAIN channels /\ channels[category].enabled
  THEN channels[category].channel_id ELSE NullStr

\* sendToDiscord with no try around the lookup and the send
SendToDiscordUncaught(logs, channels, cache, messages, logId, logData, lookup, outcome) ==
  LET config == FindConfig(channels, logData.category)
      message == [id |-> Len(messages) + 1, channel_id |-> config,
                  category |-> logData.category]
  IN IF lookup = "fails"
     THEN [logs |-> logs, messages |-> messages, threw |-> TRUE,
           routing |-> "lookup_failed"]
     ELSE IF config = NullStr
     THEN [logs |-> logs, messages |-> messages, threw |-> FALSE,
           routing |-> "unconfigured"]
     ELSE IF config \notin cache
     THEN [logs |-> logs, messages |-> messages, threw |-> FALSE,
           routing |-> "no_channel"]
     ELSE IF outcome = "threw"
     THEN [logs |-> logs, messages |-> messages, threw |-> TRUE,
           routing |-> "send_failed"]
     ELSE [logs |-> MarkSent(logs, logId, message.id),
           messages |-> Append(messages, message), threw |-> FALSE,
           routing |-> "sent"]

\* sendToDiscord: the channel configured for the category is looked up
\* (getLogChannels may reject), taken from the cache and sent the embed
\* (channel.send may reject); the row is marked sent with message.id, and
\* in the catch it is marked not sent.  Nothing leaves the try.
SendToDiscord(logs, channels, cache, messages, logId, logData, lookup, outcome) ==
  LET config == FindConfig(channels, logData.category)
      message == [id |-> Len(messages) + 1, channel_id |-> config,
                  category |-> logData.category]
  IN IF lookup = "fails"
     THEN [logs |-> MarkFailed(logs, logId), messages |-> messages,
           threw |-> FALSE, routing |-> "lookup_failed"]
     ELSE IF config = NullStr
     THEN [logs |-> logs, messages |-> messages, threw |-> FALSE,
           routing |-> "unconfigured"]
     ELSE IF config \notin cache
     THEN [logs |-> logs, messages |-> messages, threw |-> FALSE,
           routing |-> "no_channel"]
     ELSE IF outcome = "threw"
     THEN [logs |-> MarkFailed(logs, logId), messages |-> messages,
           threw |-> FALSE, routing |-> "send_failed"]
     ELSE [logs |-> MarkSent(logs, logId, message.id),
           messages |-> Append(messages, message), threw |-> FALSE,
           routing |-> "sent"]

\* setLogChannel: INSERT OR REPLACE INTO log_channels, one row for a guild
\* and a category
SetLogChannel(category, channelId, enabled) ==
  /\ BotUp
  /\ logChannels' =
       [c \in DOMAIN logChannels \cup {category} |->
          IF c = category
          THEN [channel_id |-> channelId, enabled |-> enabled]
          ELSE logChannels[c]]
  /\ UNCHANGED <<enhancedLogs, logMessages, enhancedCall>>
  /\ UNCHANGED <<startVars, storeVars, registryVars, pending, sendLogVars,
                 activityLogVars, logRotation, now, pager, channelCache,
                 retryResponse, configVars, faultVars, schemaVars,
                 rotateVars>>

\* logEnhanced(category, subcategory, data): the row is inserted, its id
\* read from what stmt.run returns, the event routed to Discord when
\* data.guild_id || process.env.GUILD_ID is set, and the activity logged
\* with status failed for the level error.
LogEnhanced(category, subcategory, level, guild, lookup, outcome) ==
  /\ BotUp
  /\ Len(enhancedLogs) < MaxEnhanced
  /\ LET logData == [category |-> category, subcategory |-> subcategory,
                     level |-> OrDefault(level, "info"), guild_id |-> guild]
         inserted ==
           Append(enhancedLogs,
             [id |-> Len(enhancedLogs) + 1, category |-> logData.category,
              subcategory |-> logData.subcategory, level |-> logData.level,
              guild_id |-> logData.guild_id, discord_sent |-> 0,
              discord_message_id |-> Null])
         logId == StmtRunLastID(Len(enhancedLogs) + 1)
         routed ==
           IF logData.guild_id # NullStr
           THEN SendToDiscord(inserted, logChannels, channelCache,
                              logMessages, logId, logData, lookup, outcome)
           ELSE [logs |-> inserted, messages |-> logMessages,
                 threw |-> FALSE, routing |-> "none"]
     IN /\ enhancedLogs' = routed.logs
        /\ logMessages' = routed.messages
        /\ enhancedCall' =
             [n |-> enhancedCall.n + 1,
              outcome |-> IF routed.threw THEN "threw" ELSE "returned",
              category |-> category, subcategory |-> subcategory,
              level |-> logData.level, routing |-> routed.routing]
        /\ IF routed.threw
           THEN UNCHANGED activityLogVars
           ELSE /\ activityLogs' =
                     LogActivity(activityLogs, nextActivityId,
                       KindText(category, subcategory),
                       ActivityData("enhanced_logging", NullStr, NullStr,
                         IF logData.level = "error" THEN "failed"
                         ELSE "success",
                         NullStr, Null, NullStr), now)
                /\ nextActivityId' = nextActivityId + 1
  /\ UNCHANGED logChannels
  /\ UNCHANGED <<startVars, storeVars, registryVars, pending, sendLogVars,
                 logRotation, now, pager, channelCache, retryResponse,
                 configVars, faultVars, schemaVars, rotateVars>>

\* ------------------------------------------------------------------ clock
AdvanceClock ==
  /\ now < MaxNow
  /\ now' = now + 1
  /\ UNCHANGED <<startVars, storeVars, registryVars, pending, sendLogVars,
                 activityLogVars, logRotation, pager, channelCache,
                 retryResponse, configVars, faultVars, schemaVars, rotateVars,
                 enhancedVars>>

\* ----------------------------------------------------------- channel cache
\* discord.js drops a channel from client.channels.cache when the channel
\* is deleted or the bot loses the guild.
ChannelDelete(channelId) ==
  /\ channelId \in channelCache
  /\ channelCache' = channelCache \ {channelId}
  /\ UNCHANGED <<startVars, storeVars, registryVars, pending, sendLogVars,
                 activityLogVars, logRotation, now, pager, retryResponse,
                 configVars, faultVars, schemaVars, rotateVars,
                 enhancedVars>>

\* --------------------------------------------------------- specifications
\* The bot from its start: startup, creates, delete, firings, /send-once;
\* the dashboard's clear frees the log tables.
Next ==
  \/ Listen
  \/ Ready
  \/ LoadScheduledItems
  \/ LoadRemindersCallback
  \/ LoadTasksCallback
  \/ \E tok \in Tokens, r \in ReminderInputs :
        HttpAddReminder(tok, r.content, r.channel_id, r.user_id, r.time)
  \/ \E tok \in Tokens, r \in TaskInputs :
        HttpAddTask(tok, r.content, r.channel_id, r.user_id, r.time, r.days)
  \/ \E r \in ReminderInputs :
        HandleAddReminder(r.user_id, r.channel_id, r.content, r.time)
  \/ \E r \in TaskInputs :
        HandleAddTask(r.user_id, r.channel_id, r.content, r.time, r.days)
  \/ \E u \in Users, id \in 1..MaxItems : HandleDeleteReminder(u, "ch1", id)
  \/ \E d \in ClockDays, t \in ClockTimes : Tick(d, t)
  \/ \E j \in pending, o \in SendOutcomes : FireJob(j, o)
  \/ \E tok \in Tokens, c \in Contents, ch \in Channels, o \in SendOutcomes :
        SendOnce(tok, <<c>>, ch, o)
  \/ \E tok \in Tokens : ClearLogs(tok)

Spec == Init /\ [][Next]_vars

\* The started bot and the dashboard working on the log tables: the store
\* of an earlier run, loaded by the 'ready' handler, and the HTTP API open.
InitLogs ==
  /\ readyPc = "done"
  /\ loadPending = {}
  /\ listening = TRUE
  /\ reminders \in InitReminders
  /\ tasks \in InitTasks
  /\ Len(reminders) + Len(tasks) <= MaxItems
  /\ nextReminderId = Len(reminders) + 1
  /\ nextTaskId = Len(tasks) + 1
  /\ LET reg == LoadTasks(
                  LoadReminders([jobs |-> <<>>, cronJobs |-> <<>>],
                                RowIds(DOMAIN reminders)),
                  RowIds(DOMAIN tasks))
     IN /\ jobs = reg.jobs
        /\ cronJobs = reg.cronJobs
  /\ pending = {}
  /\ sendLogs = <<>>
  /\ activityLogs = LogActivity(<<>>, 1, "activity:bot_started",
       ActivityData("discord_bot", NullStr, NullStr, NullStr, NullStr, Null,
                    NullStr), 0)
  /\ nextSendId = 1
  /\ nextActivityId = 2
  /\ logRotation = <<>>
  /\ now = 0
  /\ pager = IdlePager
  /\ channelCache = ChannelCache
  /\ retryResponse = NoResponse
  /\ envLogsToken = LogsToken
  /\ insertError = FALSE
  /\ logWriteError = FALSE
  /\ rotation = NoRotation
  /\ enhancedLogs = <<>>
  /\ logChannels = <<>>
  /\ logMessages = <<>>
  /\ enhancedCall = NoCall
  /\ migratePc = Done
  /\ columns = AllColumns
  /\ updatedAt = <<>>

NextLogs ==
  \/ \E d \in ClockDays, t \in ClockTimes : Tick(d, t)
  \/ \E j \in pending, o \in SendOutcomes : FireJob(j, o)
  \/ \E tok \in Tokens, c \in Contents, ch \in Channels, o \in SendOutcomes :
        SendOnce(tok, <<c>>, ch, o)
  \/ \E tok \in Tokens, id \in 1..MaxSendId, o \in SendOutcomes :
        Retry(tok, id, o)
  \/ \E tok \in Tokens, a \in MaxAges : RotateLogs(tok, a)
  \/ \E tok \in Tokens, a \in MaxAges : DashRotate(tok, a)
  \/ \E tok \in Tokens : ClearLogs(tok)
  \/ \E tok \in Tokens, b \in {<<NullStr, Null>>, <<"failed", 1>>} :
        CreateLog(tok, "activity:manual", b[1], b[2])
  \/ AdvanceClock

SpecLogs == InitLogs /\ [][NextLogs]_vars

\* The bot and the dashboard's retry after the log was cleared: the store
\* as an earlier run left it, slash commands adding and deleting rows,
\* firings, /send-once, channels leaving the cache, retries.
InitRetry ==
  /\ readyPc = "done"
  /\ loadPending = {}
  /\ listening = TRUE
  /\ reminders \in InitReminders
  /\ tasks \in InitTasks
  /\ Len(reminders) + Len(tasks) <= MaxItems
  /\ nextReminderId = Len(reminders) + 1
  /\ nextTaskId = Len(tasks) + 1
  /\ LET reg == LoadTasks(
                  LoadReminders([jobs |-> <<>>, cronJobs |-> <<>>],
                                RowIds(DOMAIN reminders)),
                  RowIds(DOMAIN tasks))
     IN /\ jobs = reg.jobs
        /\ cronJobs = reg.cronJobs
  /\ pending = {}
  /\ sendLogs = <<>>
  /\ activityLogs = <<>>
  /\ nextSendId = 1
  /\ nextActivityId = 1
  /\ logRotation = <<>>
  /\ now = 0
  /\ pager = IdlePager
  /\ channelCache = ChannelCache
  /\ retryResponse = NoResponse
  /\ envLogsToken = LogsToken
  /\ insertError = FALSE
  /\ logWriteError = FALSE
  /\ rotation = NoRotation
  /\ enhancedLogs = <<>>
  /\ logChannels = <<>>
  /\ logMessages = <<>>
  /\ enhancedCall = NoCall
  /\ migratePc = Done
  /\ columns = AllColumns
  /\ updatedAt = <<>>

NextRetry ==
  \/ \E r \in ReminderInputs :
        HandleAddReminder(r.user_id, r.channel_id, r.content, r.time)
  \/ \E r \in TaskInputs :
        HandleAddTask(r.user_id, r.channel_id, r.content, r.time, r.days)
  \/ \E u \in Users, id \in 1..MaxItems : HandleDeleteReminder(u, "ch1", id)
  \/ \E d \in ClockDays, t \in ClockTimes : Tick(d, t)
  \/ \E j \in pending, o \in SendOutcomes : FireJob(j, o)
  \/ \E tok \in Tokens, c \in Contents, ch \in Channels, o \in SendOutcomes :
        SendOnce(tok, <<c>>, ch, o)
  \/ \E tok \in Tokens, id \in 1..MaxSendId, o \in SendOutcomes :
        Retry(tok, id, o)
  \/ \E ch \in ChannelCache : ChannelDelete(ch)

SpecRetry == InitRetry /\ [][NextRetry]_vars

\* The 'error' event of a failed INSERT of a create: the statement has no
\* listener for it and the process none for uncaught exceptions, so the
\* process ends.
InsertErrorEvent ==
  /\ insertError
  /\ insertError' = FALSE
  /\ Crash
  /\ UNCHANGED <<storeVars, sendLogVars, activityLogVars, logRotation, now,
                 pager, channelCache, retryResponse, configVars,
                 logWriteError, schemaVars, rotateVars,
                 enhancedVars>>

\* The bot with statements that can fail: the INSERT of a create and the
\* INSERT of logSend.
NextFaults ==
  \/ \E r \in ReminderInputs, w \in InsertOutcomes :
        HttpAddReminderWith(LogsToken, r.content, r.channel_id, r.user_id,
                            r.time, w)
  \/ \E r \in TaskInputs, w \in InsertOutcomes :
        HttpAddTaskWith(LogsToken, r.content, r.channel_id, r.user_id,
                        r.time, r.days, w)
  \/ \E r \in TaskInputs, w \in InsertOutcomes :
        HandleAddTaskWith(r.user_id, r.channel_id, r.content, r.time,
                          r.days, w)
  \/ InsertErrorEvent
  \/ \E d \in ClockDays, t \in ClockTimes : Tick(d, t)
  \/ \E j \in pending, o \in SendOutcomes, w \in WriteOutcomes :
        FireJobWith(j, o, w)

SpecFaults == InitRetry /\ [][NextFaults]_vars

\* ------------------------------------------------------- startup of the db
\* executeMigrations at index migratePc: a column that exists already makes
\* the statement fail with 'duplicate column name', which is skipped.
ExecuteMigration ==
  /\ migratePc \in DOMAIN Migrations
  /\ columns' = IF Migrations[migratePc] \in columns
                THEN columns
                ELSE columns \cup {Migrations[migratePc]}
  /\ migratePc' = migratePc + 1
  /\ UNCHANGED <<startVars, storeVars, registryVars, pending, sendLogVars,
                 activityLogVars, logRotation, now, pager, channelCache,
                 retryResponse, configVars, faultVars, updatedAt, rotateVars,
                 enhancedVars>>

\* populateUpdatedAtFields, first UPDATE; an error is printed and passed over
PopulateTasks ==
  /\ migratePc = PopulateTasksPc
  /\ updatedAt' = IF <<"tasks", "updated_at">> \in columns
                  THEN Backfill(updatedAt, "tasks", DOMAIN tasks, now)
                  ELSE updatedAt
  /\ migratePc' = PopulateRemindersPc
  /\ UNCHANGED <<startVars, storeVars, registryVars, pending, sendLogVars,
                 activityLogVars, logRotation, now, pager, channelCache,
                 retryResponse, configVars, faultVars, columns, rotateVars,
                 enhancedVars>>

\* populateUpdatedAtFields, second UPDATE
PopulateReminders ==
  /\ migratePc = PopulateRemindersPc
  /\ updatedAt' = IF <<"reminders", "updated_at">> \in columns
                  THEN Backfill(updatedAt, "reminders", DOMAIN reminders, now)
                  ELSE updatedAt
  /\ migratePc' = Done
  /\ UNCHANGED <<startVars, storeVars, registryVars, pending, sendLogVars,
                 activityLogVars, logRotation, now, pager, channelCache,
                 retryResponse, configVars, faultVars, columns, rotateVars,
                 enhancedVars>>

\* The process is started again at a later instant: db.connect() runs the
\* migrations before the client logs in.
Connect ==
  /\ migratePc = Done
  /\ now < MaxNow
  /\ now' = now + 1
  /\ migratePc' = 1
  /\ readyPc' = "wait"
  /\ loadPending' = {}
  /\ listening' = FALSE
  /\ jobs' = <<>>
  /\ cronJobs' = <<>>
  /\ pending' = {}
  /\ UNCHANGED <<storeVars, sendLogVars, activityLogVars, logRotation, pager,
                 channelCache, retryResponse, configVars, faultVars, columns,
                 updatedAt, rotateVars,
                 enhancedVars>>

\* updated_at as earlier runs can have left it: set at instant 0 on some
\* rows, NULL on the rows created since
EarlierBackfills ==
  LET rows == {<<"tasks", i>> : i \in DOMAIN tasks}
              \cup {<<"reminders", i>> : i \in DOMAIN reminders}
  IN {[k \in set |-> 0] : set \in SUBSET rows}

\* Either the process starts on a database that has never been migrated or
\* has been, or the bot is running on a migrated database.
InitMigrate ==
  /\ reminders \in InitReminders
  /\ tasks \in InitTasks
  /\ Len(reminders) + Len(tasks) <= MaxItems
  /\ nextReminderId = Len(reminders) + 1
  /\ nextTaskId = Len(tasks) + 1
  /\ pending = {}
  /\ sendLogs = <<>>
  /\ activityLogs = <<>>
  /\ nextSendId = 1
  /\ nextActivityId = 1
  /\ logRotation = <<>>
  /\ now = 1
  /\ pager = IdlePager
  /\ channelCache = ChannelCache
  /\ retryResponse = NoResponse
  /\ envLogsToken = LogsToken
  /\ insertError = FALSE
  /\ logWriteError = FALSE
  /\ rotation = NoRotation
  /\ enhancedLogs = <<>>
  /\ logChannels = <<>>
  /\ logMessages = <<>>
  /\ enhancedCall = NoCall
  /\ \/ /\ migratePc = 1
        /\ readyPc = "wait"
        /\ loadPending = {}
        /\ listening = FALSE
        /\ jobs = <<>>
        /\ cronJobs = <<>>
        /\ \/ columns = {} /\ updatedAt = <<>>
           \/ columns = AllColumns /\ updatedAt \in EarlierBackfills
     \/ /\ migratePc = Done
        /\ readyPc = "done"
        /\ loadPending = {}
        /\ listening = TRUE
        /\ LET reg == LoadTasks(
                        LoadReminders([jobs |-> <<>>, cronJobs |-> <<>>],
                                      RowIds(DOMAIN reminders)),
                        RowIds(DOMAIN tasks))
           IN /\ jobs = reg.jobs
              /\ cronJobs = reg.cronJobs
        /\ columns = AllColumns
        /\ updatedAt \in EarlierBackfills

NextMigrate ==
  \/ ExecuteMigration
  \/ PopulateTasks
  \/ PopulateReminders
  \/ Connect
  \/ \E r \in ReminderInputs :
        HandleAddReminder(r.user_id, r.channel_id, r.content, r.time)
  \/ \E r \in TaskInputs :
        HandleAddTask(r.user_id, r.channel_id, r.content, r.time, r.days)

SpecMigrate == InitMigrate /\ [][NextMigrate]_vars

\* Requests with and without x-logs-token against the bot and the dashboard,
\* with the secret configured and with LOGS_TOKEN not set.
Headers == Tokens \cup {Absent}

InitAuth ==
  /\ readyPc = "done"
  /\ loadPending = {}
  /\ listening = TRUE
  /\ reminders \in InitReminders
  /\ tasks \in InitTasks
  /\ Len(reminders) + Len(tasks) <= MaxItems
  /\ nextReminderId = Len(reminders) + 1
  /\ nextTaskId = Len(tasks) + 1
  /\ LET reg == LoadTasks(
                  LoadReminders([jobs |-> <<>>, cronJobs |-> <<>>],
                                RowIds(DOMAIN reminders)),
                  RowIds(DOMAIN tasks))
     IN /\ jobs = reg.jobs
        /\ cronJobs = reg.cronJobs
  /\ pending = {}
  /\ sendLogs = <<>>
  /\ activityLogs = <<>>
  /\ nextSendId = 1
  /\ nextActivityId = 1
  /\ logRotation = <<>>
  /\ now = 0
  /\ pager = IdlePager
  /\ channelCache = ChannelCache
  /\ retryResponse = NoResponse
  /\ envLogsToken \in {LogsToken, Unset}
  /\ insertError = FALSE
  /\ logWriteError = FALSE
  /\ rotation = NoRotation
  /\ enhancedLogs = <<>>
  /\ logChannels = <<>>
  /\ logMessages = <<>>
  /\ enhancedCall = NoCall
  /\ migratePc = Done
  /\ columns = AllColumns
  /\ updatedAt = <<>>

NextAuth ==
  \/ \E d \in ClockDays, t \in ClockTimes : Tick(d, t)
  \/ \E j \in pending, o \in SendOutcomes : FireJob(j, o)
  \/ \E h \in Headers, r \in ReminderInputs :
        HttpAddReminder(h, r.content, r.channel_id, r.user_id, r.time)
  \/ \E h \in Headers, r \in TaskInputs :
        HttpAddTask(h, r.content, r.channel_id, r.user_id, r.time, r.days)
  \/ \E h \in Headers, c \in Contents, ch \in Channels, o \in SendOutcomes :
        SendOnce(h, <<c>>, ch, o)
  \/ \E h \in Headers, a \in MaxAges : RotateLogs(h, a)
  \/ \E h \in Headers : CreateLog(h, "activity:manual", NullStr, Null)
  \/ \E h \in Headers, id \in 1..MaxSendId, o \in SendOutcomes :
        Retry(h, id, o)
  \/ \E h \in Headers : ClearLogs(h)
  \/ \E h \in Headers, a \in MaxAges : DashRotate(h, a)

SpecAuth == InitAuth /\ [][NextAuth]_vars

\* A log written over the instants 1..MaxStamp: at each instant nothing, a
\* /send-once that was sent, a task firing that failed, or an activity.
PageWrites == {"none", "send_once", "task", "activity"}

RECURSIVE WrittenSend(_, _)
WrittenSend(w, t) ==
  IF t = 0 THEN <<>>
  ELSE LET before == WrittenSend(w, t - 1)
       IN IF w[t] \in {"send_once", "both"}
          THEN LogSend(before, Len(before) + 1, "send_once",
                 SendData("http_api", "ch1", NullStr, <<"standup">>, "sent",
                          NullStr, MessageId, Null), t)
          ELSE IF w[t] = "task"
          THEN LogSend(before, Len(before) + 1, "task",
                 SendData("cron", "ch1", "u1", Template("task", "standup"),
                          "failed", ErrorMessage, NullStr, 1), t)
          ELSE before

RECURSIVE WrittenActivity(_, _)
WrittenActivity(w, t) ==
  IF t = 0 THEN <<>>
  ELSE LET before == WrittenActivity(w, t - 1)
       IN IF w[t] \in {"activity", "both"}
          THEN LogActivity(before, Len(before) + 1, "activity:bot_started",
                 ActivityData("discord_bot", NullStr, NullStr, NullStr,
                              NullStr, Null, NullStr), t)
          ELSE before

\* The dashboard reading a log the bot has written: the rows of a table
\* have increasing ids and timestamps, no two rows share a timestamp.
InitPage ==
  /\ readyPc = "done"
  /\ loadPending = {}
  /\ listening = TRUE
  /\ reminders = <<>>
  /\ tasks = <<>>
  /\ nextReminderId = 1
  /\ nextTaskId = 1
  /\ jobs = <<>>
  /\ cronJobs = <<>>
  /\ pending = {}
  /\ channelCache = ChannelCache
  /\ retryResponse = NoResponse
  /\ envLogsToken = LogsToken
  /\ insertError = FALSE
  /\ logWriteError = FALSE
  /\ rotation = NoRotation
  /\ enhancedLogs = <<>>
  /\ logChannels = <<>>
  /\ logMessages = <<>>
  /\ enhancedCall = NoCall
  /\ migratePc = Done
  /\ columns = AllColumns
  /\ updatedAt = <<>>
  /\ \E w \in [1..MaxStamp -> PageWrites] :
       /\ sendLogs = WrittenSend(w, MaxStamp)
       /\ activityLogs = WrittenActivity(w, MaxStamp)
  /\ nextSendId = Len(sendLogs) + 1
  /\ nextActivityId = Len(activityLogs) + 1
  /\ logRotation = <<>>
  /\ now = MaxStamp
  /\ \E f \in PageFilters, k \in 1..MaxLimit :
       pager = [IdlePager EXCEPT !.filter = f, !.limit = k]

NextPage == FetchPage

SpecPage == InitPage /\ [][NextPage]_vars

\* The log with, at an instant, also a /send-once and an activity written
\* within the same second: a row of each table with the same timestamp.
QueryWrites == PageWrites \cup {"both"}

\* The filters of a request: those of the paging client, a status, a
\* channel, a free text that is in a content, and the free text "%"
QueryFilters ==
  PageFilters \cup
  {[NoFilter EXCEPT !.status = "success"],
   [NoFilter EXCEPT !.channel_id = "ch1"],
   [NoFilter EXCEPT !.q = "standup"],
   [NoFilter EXCEPT !.q = "%"]}

\* Cursors no response holds: without separator and id part, and with an id
\* part that is no numeral
MalformedCursors ==
  {<<t>> : t \in 1..MaxStamp}
  \cup {<<t, "_", <<NonDigit>>>> : t \in 1..MaxStamp}

InitQuery ==
  /\ readyPc = "done"
  /\ loadPending = {}
  /\ listening = TRUE
  /\ reminders = <<>>
  /\ tasks = <<>>
  /\ nextReminderId = 1
  /\ nextTaskId = 1
  /\ jobs = <<>>
  /\ cronJobs = <<>>
  /\ pending = {}
  /\ channelCache = ChannelCache
  /\ retryResponse = NoResponse
  /\ envLogsToken = LogsToken
  /\ insertError = FALSE
  /\ logWriteError = FALSE
  /\ rotation = NoRotation
  /\ enhancedLogs = <<>>
  /\ logChannels = <<>>
  /\ logMessages = <<>>
  /\ enhancedCall = NoCall
  /\ migratePc = Done
  /\ columns = AllColumns
  /\ updatedAt = <<>>
  /\ \E w \in [1..MaxStamp -> QueryWrites] :
       /\ sendLogs = WrittenSend(w, MaxStamp)
       /\ activityLogs = WrittenActivity(w, MaxStamp)
  /\ nextSendId = Len(sendLogs) + 1
  /\ nextActivityId = Len(activityLogs) + 1
  /\ logRotation = <<>>
  /\ now = MaxStamp
  /\ \E f \in QueryFilters, k \in 1..MaxLimit :
       pager = [IdlePager EXCEPT !.filter = f, !.limit = k]

NextQuery ==
  \/ FetchPage
  \/ \E c \in MalformedCursors : FetchCursor(c)

SpecQuery == InitQuery /\ [][NextQuery]_vars

\* maxAge of the request body: days back, none, and a negative number
RotateAges == MaxAges \cup {0 - 1}

\* A rotation running while /send-once requests are answered
NextRotate ==
  \/ \E a \in RotateAges : RotateCount(LogsToken, a)
  \/ RotateDelete
  \/ RotateMark
  \/ \E c \in Contents, ch \in Channels, o \in SendOutcomes :
        SendOnce(LogsToken, <<c>>, ch, o)
  \/ AdvanceClock

SpecRotate == InitRetry /\ [][NextRotate]_vars

\* The client paging through a log that is being written: between two
\* requests the bot answers a /send-once and the dashboard stores an
\* activity, each stamped with the current second.
NextLive ==
  \/ FetchPage
  \/ \E c \in Contents, ch \in Channels, o \in SendOutcomes :
        SendOnce(LogsToken, <<c>>, ch, o)
  \/ CreateLog(LogsToken, "activity:manual", NullStr, Null)

SpecLive == InitQuery /\ [][NextLive]_vars

\* The limits a query string can carry: none, 0, positive, negative, and
\* a text that is no number
LimitTexts ==
  {<<>>, <<NonDigit>>, <<Minus, 1>>, <<Minus, 2>>}
  \cup {Numeral(k) : k \in 0..MaxLimit}

NextLimit == \E text \in LimitTexts : FetchLimit(text)

SpecLimit == InitQuery /\ [][NextLimit]_vars

\* Events logged while log channels are configured
NextEnhanced ==
  \/ \E c \in LogCategories, ch \in Channels, e \in BOOLEAN :
        SetLogChannel(c, ch, e)
  \/ \E c \in LogCategories, sub \in LogSubcategories, l \in LogLevels,
        g \in {Guild, NullStr}, lookup \in {"ok", "fails"},
        o \in SendOutcomes :
        LogEnhanced(c, sub, l, g, lookup, o)

SpecEnhanced == InitRetry /\ [][NextEnhanced]_vars

\* ------------------------------------------------------------------ claims
LoadComplete == readyPc = "done" /\ loadPending = {}

ReminderKeys == {<<"reminder", i>> : i \in DOMAIN reminders}
TaskKeys == {<<"task", i>> : i \in DOMAIN tasks}

\* The running jobs created for the row i of a table
ItemJobs(kind, i) ==
  {j \in DOMAIN jobs : j[1] = kind /\ j[2] = i /\ jobs[j].running}

\* The minute (weekday d, time t) is one at which the item is to fire
Due(time, days, d, t) ==
  /\ time = t
  /\ days = <<>> \/ \E i \in 1..Len(days) : days[i] = d

\* C1: every firing of a reminder or task trigger appends exactly one
\* send_logs row, whether the send succeeds, throws, or the channel cannot
\* be resolved.
C1_EveryFiringLogged ==
  [][\A j \in DOMAIN jobs, o \in SendOutcomes :
       FireJob(j, o) => Len(sendLogs') = Len(sendLogs) + 1]_vars

\* C2: every send_logs row written by a scheduled delivery or by /send-once
\* has status success or failed: success with a message id, failed with an
\* error.
C2_StatusSuccessOrFailed ==
  \A i \in 1..Len(sendLogs) :
    /\ sendLogs[i].status \in {"success", "failed"}
    /\ sendLogs[i].status = "success" => sendLogs[i].message_id # NullStr
    /\ sendLogs[i].status = "failed" => sendLogs[i].error # NullStr

\* C3: once the startup load is over, after any create or delete the keys
\* of cronJobs are exactly the reminder and task rows of the store.
C3_RegistryMatchesStore ==
  LoadComplete => DOMAIN cronJobs = ReminderKeys \cup TaskKeys

\* C4: at most one running trigger exists per (kind, id) handed to
\* scheduleReminder / scheduleTask: registering again stops the old one.
C4_OneRunningTriggerPerKey ==
  \A j1, j2 \in DOMAIN jobs :
    (/\ jobs[j1].running /\ jobs[j2].running
     /\ jobs[j1].kind = jobs[j2].kind /\ jobs[j1].id = jobs[j2].id)
    => j1 = j2

\* C5: when delete-reminder for an id has completed, every trigger created
\* for that reminder has been stopped, so none fires for it again.
C5_DeleteStopsTriggers ==
  [][\A u \in Users, id \in 1..MaxItems :
       HandleDeleteReminder(u, "ch1", id) => ItemJobs("reminder", id)' = {}]_vars

\* C6: the HTTP API accepts requests only after the startup rebuild has
\* registered every stored reminder and task.
C6_LoadBeforeListen == listening => LoadComplete

\* C7: a create with a time outside 0-23 / 0-59 or a day token outside 0-6
\* leaves the store and the registry unchanged, on the HTTP paths and on the
\* slash command paths.
C7_InvalidCreateChangesNothing ==
  [][/\ \A tok \in Tokens, r \in ReminderInputs :
          (/\ HttpAddReminder(tok, r.content, r.channel_id, r.user_id, r.time)
           /\ ~timeRegex(r.time))
          => UNCHANGED <<storeVars, registryVars>>
     /\ \A tok \in Tokens, r \in TaskInputs :
          (/\ HttpAddTask(tok, r.content, r.channel_id, r.user_id, r.time,
                          r.days)
           /\ ~(timeRegex(r.time) /\ validDays(r.days)))
          => UNCHANGED <<storeVars, registryVars>>
     /\ \A r \in ReminderInputs :
          (/\ HandleAddReminder(r.user_id, r.channel_id, r.content, r.time)
           /\ ~timeRegex(r.time))
          => UNCHANGED <<storeVars, registryVars>>
     /\ \A r \in TaskInputs :
          (/\ HandleAddTask(r.user_id, r.channel_id, r.content, r.time, r.days)
           /\ ~(timeRegex(r.time) /\ validDays(r.days)))
          => UNCHANGED <<storeVars, registryVars>>]_vars

\* C8: at every minute of the clock a registered item with a valid time and
\* day set fires exactly once when the minute is its time on one of its
\* days (any day without a day set, and for a reminder), and not at all
\* otherwise.
C8_FiresOncePerMatchingDay ==
  [][\A d \in ClockDays, t \in ClockTimes :
       Tick(d, t) =>
         /\ \A i \in DOMAIN reminders :
              (timeRegex(reminders[i].time) /\ ItemJobs("reminder", i) # {})
              => Cardinality(pending' \cap ItemJobs("reminder", i)) =
                   IF Due(reminders[i].time, <<>>, d, t) THEN 1 ELSE 0
         /\ \A i \in DOMAIN tasks :
              (/\ timeRegex(tasks[i].time) /\ validDays(tasks[i].days)
               /\ ItemJobs("task", i) # {})
              => Cardinality(pending' \cap ItemJobs("task", i)) =
                   IF Due(tasks[i].time, tasks[i].days, d, t) THEN 1 ELSE 0]_vars

\* Every row of `old` still present in `new` (by id) has kept all its values
RowsKept(old, new) ==
  \A i \in 1..Len(old) : \A k \in 1..Len(new) :
    new[k].id = old[i].id => new[k] = old[i]

\* C9: no step changes a field of a send_logs or activity_logs row that
\* exists: a row keeps its values until rotation or clear removes it, and a
\* retry leaves the rows there are and adds its outcome as a new row.
C9_LogRowsImmutable ==
  [][/\ RowsKept(sendLogs, sendLogs')
     /\ RowsKept(activityLogs, activityLogs')
     /\ \/ /\ Len(sendLogs') >= Len(sendLogs)
           /\ SubSeq(sendLogs', 1, Len(sendLogs)) = sendLogs
        \/ \A tok \in Tokens, id \in 1..MaxSendId, o \in SendOutcomes :
             ~Retry(tok, id, o)]_vars

\* C9 witness: a retry has replayed the template of a failed reminder or
\* task entry and its outcome stands in a row of its own behind that entry.
C9_Witness ==
  \E i, k \in 1..Len(sendLogs) :
    /\ i < k
    /\ sendLogs[i].status = "failed"
    /\ sendLogs[i].kind \in {"reminder", "task"}
    /\ sendLogs[i].ref_id # Null
    /\ sendLogs[k].kind = "send_once"
    /\ Len(sendLogs[k].content) = 2

\* The rows of both tables that the filter of the client lets through
Qualifying ==
  {SendSelect(sendLogs[i]) : i \in
     {n \in 1..Len(sendLogs) : SendMatches(sendLogs[n], pager.filter)}}
  \cup
  {ActivitySelect(activityLogs[i]) : i \in
     {n \in 1..Len(activityLogs) :
        ActivityMatches(activityLogs[n], pager.filter)}}

SeenRows == {pager.seen[i] : i \in 1..Len(pager.seen)}

\* C10: over rows of pairwise distinct timestamps in the two tables, a
\* client that asks for limit = k >= 1 and follows nextCursor has, after
\* each page, received the first rows of the qualifying rows in strictly
\* descending (timestamp, id) order, none twice; hasMore is false exactly
\* on the page that completes them, and a page with hasMore gives a cursor.
C10_PagesCoverOnceDescending ==
  pager.calls > 0 =>
    /\ SeenRows \subseteq Qualifying
    /\ Cardinality(SeenRows) = Len(pager.seen)
    /\ Len(pager.seen) =
         IF pager.calls * pager.limit < Cardinality(Qualifying)
         THEN pager.calls * pager.limit ELSE Cardinality(Qualifying)
    /\ \A i \in 1..Len(pager.seen) - 1 :
         \/ pager.seen[i].timestamp > pager.seen[i + 1].timestamp
         \/ /\ pager.seen[i].timestamp = pager.seen[i + 1].timestamp
            /\ pager.seen[i].id > pager.seen[i + 1].id
    /\ ~pager.hasMore <=> SeenRows = Qualifying
    /\ pager.hasMore => pager.nextCursor # NoCursor

\* C10 witness: a client has followed the cursor over three pages or more
\* and holds every row of a log with rows in both tables.
C10_Witness ==
  /\ pager.calls >= 3
  /\ ~pager.hasMore
  /\ SeenRows = Qualifying
  /\ \E i, k \in 1..Len(pager.seen) :
       pager.seen[i].log_type = "send" /\ pager.seen[k].log_type = "activity"

\* The rows a request with filter f and the given cursor selects from the
\* two tables, before the merge
Candidates(f, cursor) ==
  {SendSelect(sendLogs[i]) : i \in
     {n \in 1..Len(sendLogs) :
        /\ SendMatches(sendLogs[n], f)
        /\ AfterCursor(sendLogs[n].sent_at, sendLogs[n].id, cursor)}}
  \cup
  {ActivitySelect(activityLogs[i]) : i \in
     {n \in 1..Len(activityLogs) :
        /\ ActivityMatches(activityLogs[n], f)
        /\ AfterCursor(activityLogs[n].created_at, activityLogs[n].id,
                       cursor)}}

\* a is not before b in the order (timestamp desc, id desc)
KeyLeq(a, b) ==
  \/ a.timestamp < b.timestamp
  \/ a.timestamp = b.timestamp /\ a.id <= b.id

\* The page the client has received in the step
NewPage == SubSeq(pager'.seen, Len(pager.seen) + 1, Len(pager'.seen))

\* page holds the first n rows of the set cand in descending order
FirstRows(page, cand, n) ==
  /\ Len(page) = n
  /\ {page[i] : i \in 1..Len(page)} \subseteq cand
  /\ Cardinality({page[i] : i \in 1..Len(page)}) = Len(page)
  /\ \A i, j \in 1..Len(page) : i < j => KeyLeq(page[j], page[i])
  /\ \A r \in cand \ {page[i] : i \in 1..Len(page)} :
       \A i \in 1..Len(page) : KeyLeq(r, page[i])

\* C11: a request with a positive limit answers hasMore = true exactly
\* when the rows that pass the filters and the cursor in both tables are
\* more than limit, and its page is the first min(limit, count) of these
\* rows in the order (timestamp desc, id desc).
C11_PageIsFirstRows ==
  [][FetchPage =>
       LET cand == Candidates(pager.filter, pager.nextCursor)
           n == IF pager.limit < Cardinality(cand)
                THEN pager.limit ELSE Cardinality(cand)
       IN /\ pager'.hasMore <=> Cardinality(cand) > pager.limit
          /\ FirstRows(NewPage, cand, n)]_vars

\* C11 witness: a second page of two rows, with more to come, of a log
\* whose rows of both tables have been returned.
C11_Witness ==
  /\ pager.calls = 2
  /\ pager.limit = 2
  /\ pager.hasMore
  /\ Len(pager.seen) = 4
  /\ \E i, k \in 1..Len(pager.seen) :
       pager.seen[i].log_type = "send" /\ pager.seen[k].log_type = "activity"

\* The rows of cand that can stand at place n of cand sorted by (timestamp
\* desc, id desc): fewer than n rows go strictly before, n or more go
\* before or beside (rows of the two tables may share timestamp and id).
NthRows(cand, n) ==
  {r \in cand :
     /\ Cardinality({c \in cand : KeyLeq(r, c) /\ ~KeyLeq(c, r)}) < n
     /\ Cardinality({c \in cand : KeyLeq(r, c)}) >= n}

\* C12 as stated: when hasMore is true, nextCursor encodes the row at place
\* limit + 1 of the merged sequence, and that row is not in the page.
C12_CursorIsDroppedRow ==
  [][(FetchPage /\ pager'.hasMore) =>
       \E r \in NthRows(Candidates(pager.filter, pager.nextCursor),
                        pager.limit + 1) :
         /\ pager'.nextCursor = CursorText(r)
         /\ \A i \in 1..Len(NewPage) : NewPage[i] # r]_vars

\* C12 amended: when hasMore is true, nextCursor encodes the row at place
\* limit of the merged sequence, which is the last row of the page; the
\* page ends there, so the row at place limit + 1 is not in it.
C12_CursorIsLastRowOfPage ==
  [][(FetchPage /\ pager'.hasMore) =>
       /\ Len(NewPage) = pager.limit
       /\ NewPage[Len(NewPage)] \in
            NthRows(Candidates(pager.filter, pager.nextCursor), pager.limit)
       /\ pager'.nextCursor = CursorText(NewPage[Len(NewPage)])]_vars

\* C12 witness: a first page of three rows with more to come, the cursor
\* made of its third row.
C12_Witness ==
  /\ pager.calls = 1
  /\ pager.limit = 3
  /\ pager.hasMore
  /\ Len(pager.seen) = 3
  /\ pager.nextCursor = CursorText(pager.seen[3])

\* The rows passing the client's filter whose (timestamp, id) is strictly
\* smaller than that of the row `last`
SmallerThan(last) ==
  {r \in Qualifying : KeyLeq(r, last) /\ ~KeyLeq(last, r)}

\* C13: a nextCursor that is not null encodes the (timestamp, id) of the
\* last row of the page it comes with, and the page of the request that
\* carries it is drawn, from the top, from exactly the rows passing the
\* filters whose (timestamp, id) is strictly smaller than the cursor's.
C13_CursorOfLastRowAndStrictlySmaller ==
  [][FetchPage =>
       /\ pager'.nextCursor # NoCursor =>
            /\ Len(NewPage) > 0
            /\ pager'.nextCursor = CursorText(NewPage[Len(NewPage)])
       /\ pager.nextCursor # NoCursor =>
            LET smaller == SmallerThan(pager.seen[Len(pager.seen)])
            IN FirstRows(NewPage, smaller,
                         IF pager.limit < Cardinality(smaller)
                         THEN pager.limit ELSE Cardinality(smaller))]_vars

\* C13 witness: a client asking for one row a page has followed two
\* cursors and holds a third.
C13_Witness ==
  /\ pager.calls = 3
  /\ pager.limit = 1
  /\ Len(pager.seen) = 3
  /\ pager.nextCursor = CursorText(pager.seen[3])

\* pat is a substring of the text
Contains(text, pat) ==
  text # NullStr /\ (text = pat \/ <<text, pat>> \in Infixes)

\* The returned row satisfies every filter field that is supplied
Satisfies(r, f) ==
  /\ f.kind # "" => Contains(r.kind, f.kind)
  /\ f.status # "" => r.status = f.status
  /\ f.channel_id # "" => r.channel_id = f.channel_id
  /\ f.q # "" => \/ \E i \in 1..Len(r.content) : Contains(r.content[i], f.q)
                 \/ Contains(r.kind, f.q)
                 \/ Contains(r.error, f.q)

\* The rows of both tables, as a query lists them
AllRows ==
  {SendSelect(sendLogs[i]) : i \in 1..Len(sendLogs)}
  \cup {ActivitySelect(activityLogs[i]) : i \in 1..Len(activityLogs)}

\* C14: a query without cursor returns only rows that satisfy every
\* supplied filter (kind and free text as substrings, status and channel
\* exactly), and with a sufficient limit it returns all of them.
C14_ReturnedIffSatisfiesFilters ==
  [][(FetchPage /\ pager.calls = 0) =>
       LET good == {r \in AllRows : Satisfies(r, pager.filter)}
       IN /\ \A i \in 1..Len(NewPage) : NewPage[i] \in good
          /\ Cardinality(good) <= pager.limit =>
               good \subseteq {NewPage[i] : i \in 1..Len(NewPage)}]_vars

\* C15: a query whose cursor is malformed (the id part missing or not a
\* number) is answered with an error, never with a page of rows or an
\* empty page.
C15_MalformedCursorFails ==
  [][\A c \in MalformedCursors : FetchCursor(c) => pager'.status # 200]_vars

\* The send_logs entries with this id
EntriesOf(logId) == {i \in 1..Len(sendLogs) : sendLogs[i].id = logId}

\* The table a task or reminder entry refers to
RowsOf(kind) == IF kind = "reminder" THEN reminders ELSE tasks

\* The entry is a failed task or reminder entry whose ref_id names a row
\* that still exists
Retryable(logId) ==
  \E i \in EntriesOf(logId) :
    /\ sendLogs[i].status = "failed"
    /\ sendLogs[i].kind \in {"reminder", "task"}
    /\ sendLogs[i].ref_id # Null
    /\ sendLogs[i].ref_id \in DOMAIN RowsOf(sendLogs[i].kind)

\* C16: an authorized retry of a failed task or reminder entry whose ref_id
\* row exists appends exactly one entry to send_logs, whatever the outcome
\* of the send, and leaves the entries before it as they were.
C16_RetryAppendsOneEntry ==
  [][\A tok \in Tokens, id \in 1..MaxSendId, o \in SendOutcomes :
       (Retry(tok, id, o) /\ Authorized(tok) /\ Retryable(id)) =>
         /\ Len(sendLogs') = Len(sendLogs) + 1
         /\ SubSeq(sendLogs', 1, Len(sendLogs)) = sendLogs]_vars

\* No entry with this id, or one that is not failed, or of a kind other
\* than task and reminder, or without ref_id, or whose row is gone
Refused(logId) ==
  \A i \in EntriesOf(logId) :
    \/ sendLogs[i].status # "failed"
    \/ sendLogs[i].kind \notin {"reminder", "task"}
    \/ sendLogs[i].ref_id = Null
    \/ sendLogs[i].ref_id \notin DOMAIN RowsOf(sendLogs[i].kind)

\* C17: an authorized retry of an id that is not found or not failed, of an
\* entry that is neither task nor reminder, of an entry without ref_id, or
\* of an entry whose row is gone is answered with an error and sends
\* nothing: no row is added to or changed in either log table.
C17_RefusedRetryWritesNothing ==
  [][\A tok \in Tokens, id \in 1..MaxSendId, o \in SendOutcomes :
       (Retry(tok, id, o) /\ Authorized(tok) /\ Refused(id)) =>
         /\ retryResponse' \in {400, 404}
         /\ UNCHANGED <<sendLogVars, activityLogVars>>]_vars

\* A retry was answered 404 while the log holds a failed reminder entry
\* whose reminder was deleted, and 400 cases beside it: a failed /send-once
\* entry in the log.
C17_Witness ==
  /\ retryResponse = 404
  /\ \E i \in 1..Len(sendLogs) :
       /\ sendLogs[i].status = "failed"
       /\ sendLogs[i].kind = "reminder"
       /\ sendLogs[i].ref_id # Null
       /\ sendLogs[i].ref_id \notin DOMAIN reminders
  /\ \A i \in 1..Len(sendLogs) : sendLogs[i].status = "failed"
  /\ Len(sendLogs) = MaxSendId

\* C18: the entry a retry appends has the kind, the channel and the ref_id
\* of the failed entry, and its content is the failed entry's template.
C18_RetryEntryKeepsKindChannelRef ==
  [][\A tok \in Tokens, id \in 1..MaxSendId, o \in SendOutcomes :
       (Retry(tok, id, o) /\ Len(sendLogs') = Len(sendLogs) + 1) =>
         \E i \in EntriesOf(id) :
           LET new == sendLogs'[Len(sendLogs')]
           IN /\ new.kind = sendLogs[i].kind
              /\ new.channel_id = sendLogs[i].channel_id
              /\ new.ref_id = sendLogs[i].ref_id
              /\ new.content = sendLogs[i].content]_vars

\* The rows of a log table that are gone after the step
GoneSend == {i \in 1..Len(sendLogs) :
               \A k \in 1..Len(sendLogs') : sendLogs'[k] # sendLogs[i]}
GoneActivity == {i \in 1..Len(activityLogs) :
                   \A k \in 1..Len(activityLogs') :
                     activityLogs'[k] # activityLogs[i]}

\* The rows written before the cutoff instant
EarlierSend(cutoff) ==
  {i \in 1..Len(sendLogs) : sendLogs[i].sent_at < cutoff}
EarlierActivity(cutoff) ==
  {i \in 1..Len(activityLogs) : activityLogs[i].created_at < cutoff}

\* C19: an authorized rotation deletes from both log tables the rows
\* written before the cutoff (now minus maxAge days) and no row written
\* after it, and when it deletes it adds exactly one log_rotation row whose
\* records_archived is the number of rows deleted.
C19_RotationDeletesOnlyEarlierRows ==
  [][\A tok \in Tokens, a \in MaxAges :
       (RotateLogs(tok, a) /\ Authorized(tok)) =>
         LET cutoff == Cutoff(a)
         IN /\ EarlierSend(cutoff) \subseteq GoneSend
            /\ EarlierActivity(cutoff) \subseteq GoneActivity
            /\ \A i \in GoneSend : sendLogs[i].sent_at <= cutoff
            /\ \A i \in GoneActivity : activityLogs[i].created_at <= cutoff
            /\ GoneSend \cup GoneActivity # {} =>
                 /\ Len(logRotation') = Len(logRotation) + 1
                 /\ logRotation'[Len(logRotation')].records_archived =
                      Cardinality(GoneSend) + Cardinality(GoneActivity)]_vars

\* C20: an authorized rotation that finds no row written before the cutoff
\* writes nothing: no row is deleted, no log_rotation row is added, and no
\* row is added to either log table.
C20_RotationOfNothingWritesNothing ==
  [][\A tok \in Tokens, a \in MaxAges :
       (/\ RotateLogs(tok, a)
        /\ Authorized(tok)
        /\ EarlierSend(Cutoff(a)) = {}
        /\ EarlierActivity(Cutoff(a)) = {}) =>
         UNCHANGED <<sendLogVars, activityLogVars, logRotation>>]_vars

\* The header is missing or differs from the configured secret
Unauthorized(h) == h = Absent \/ h # envLogsToken

\* C21: a request to a state-changing endpoint of the bot or of the
\* dashboard whose x-logs-token is missing or differs from the configured
\* secret, the secret set or not, changes no row of the store or of the log
\* tables and no registry entry, and sends no message.
C21_UnauthorizedChangesNothing ==
  [][\/ UNCHANGED <<storeVars, registryVars, sendLogVars, activityLogVars,
                    logRotation>>
     \/ \A h \in {x \in Headers : Unauthorized(x)} :
          /\ \A r \in ReminderInputs :
               ~HttpAddReminder(h, r.content, r.channel_id, r.user_id, r.time)
          /\ \A r \in TaskInputs :
               ~HttpAddTask(h, r.content, r.channel_id, r.user_id, r.time,
                            r.days)
          /\ \A c \in Contents, ch \in Channels, o \in SendOutcomes :
               ~SendOnce(h, <<c>>, ch, o)
          /\ \A a \in MaxAges : ~RotateLogs(h, a) /\ ~DashRotate(h, a)
          /\ ~CreateLog(h, "activity:manual", NullStr, Null)
          /\ \A id \in 1..MaxSendId, o \in SendOutcomes : ~Retry(h, id, o)
          /\ ~ClearLogs(h)]_vars

\* C22: no authorized /send-once request, whatever its channel and whatever
\* the outcome of its send, can be answered without exactly one entry of
\* kind send_once having been appended to send_logs.
C22_SendOnceAlwaysLogs ==
  \A c \in Contents, ch \in Channels, o \in SendOutcomes :
    ~ENABLED (/\ SendOnce(LogsToken, <<c>>, ch, o)
              /\ Authorized(LogsToken)
              /\ ~(/\ Len(sendLogs') = Len(sendLogs) + 1
                   /\ sendLogs'[Len(sendLogs')].kind = "send_once"))

\* No reminder row has this id and this owner
NoSuchReminder(userId, reminderId) ==
  \/ reminderId \notin DOMAIN reminders
  \/ reminders[reminderId].user_id # userId

\* C23: /delete-reminder for an id that does not exist or that belongs to
\* another user changes nothing: every reminder row stays and every trigger
\* stays registered and running.
C23_DeleteOfForeignReminderChangesNothing ==
  [][\/ UNCHANGED <<storeVars, registryVars>>
     \/ \A u \in Users, id \in 1..MaxItems :
          ~(HandleDeleteReminder(u, "ch1", id) /\ NoSuchReminder(u, id))]_vars

\* The delivery of job j fails: the channel is missing or the send throws
DeliveryFails(j, outcome) ==
  jobs[j].channel_id \notin channelCache \/ outcome = "threw"

\* C24: a firing whose delivery fails leaves every trigger registered and
\* running and takes no other firing away, and at every later minute each
\* running trigger whose pattern matches fires, the one that failed too.
C24_FailedDeliveryKeepsTriggers ==
  [][/\ \A j \in pending, o \in SendOutcomes :
          (FireJob(j, o) /\ DeliveryFails(j, o)) =>
            /\ UNCHANGED registryVars
            /\ pending' = pending \ {j}
     /\ \A d \in ClockDays, t \in ClockTimes :
          Tick(d, t) =>
            \A j \in DOMAIN jobs :
              (jobs[j].running /\ CronMatches(jobs[j].pattern, d, t))
                => j \in pending']_vars

\* A trigger whose earlier delivery failed has fired again
C24_Witness ==
  \E j \in pending, i \in 1..Len(sendLogs) :
    /\ sendLogs[i].status = "failed"
    /\ sendLogs[i].kind = jobs[j].kind
    /\ sendLogs[i].ref_id = jobs[j].id
    /\ jobs[j].running

\* C25: an authorized clear empties send_logs and activity_logs and resets
\* their id counters, and leaves the task rows, the reminder rows, the
\* log_rotation rows and the registry of triggers as they were.
C25_ClearEmptiesLogsOnly ==
  [][\A tok \in Tokens :
       (DashAuthorized(tok) /\ ClearLogs(tok)) =>
         /\ sendLogs' = <<>>
         /\ activityLogs' = <<>>
         /\ nextSendId' = 1
         /\ nextActivityId' = 1
         /\ UNCHANGED <<storeVars, registryVars, logRotation>>]_vars

\* The logs were cleared while a log_rotation row, an item and its trigger
\* exist
C25_Witness ==
  /\ sendLogs = <<>>
  /\ activityLogs = <<>>
  /\ nextSendId = 1
  /\ nextActivityId = 1
  /\ Len(logRotation) > 0
  /\ DOMAIN reminders \cup DOMAIN tasks # {}
  /\ DOMAIN cronJobs # {}

\* The rows a step has inserted
NewSendRows ==
  {k \in 1..Len(sendLogs') :
     \A i \in 1..Len(sendLogs) : sendLogs[i] # sendLogs'[k]}
NewActivityRows ==
  {k \in 1..Len(activityLogs') :
     \A i \in 1..Len(activityLogs) : activityLogs[i] # activityLogs'[k]}

\* Every inserted row has an id the table's counter had not yet handed out
FreshIds ==
  /\ \A k \in NewSendRows :
       /\ sendLogs'[k].id >= nextSendId
       /\ sendLogs'[k].id < nextSendId'
  /\ \A k \in NewActivityRows :
       /\ activityLogs'[k].id >= nextActivityId
       /\ activityLogs'[k].id < nextActivityId'

\* C26 as stated: over appends, rotations and clears every inserted row of
\* send_logs, and of activity_logs, gets an id greater than every id the
\* table has handed out before; the counter of a table never goes back.
C26_IdsNeverReused ==
  [][/\ FreshIds
     /\ nextSendId' >= nextSendId
     /\ nextActivityId' >= nextActivityId]_vars

\* C26 amended: every inserted row gets an id greater than every id the
\* table has handed out since the last clear, and only a clear takes the
\* counter of a table back.
C26_IdsGrowBetweenClears ==
  [][/\ FreshIds
     /\ (nextSendId' < nextSendId \/ nextActivityId' < nextActivityId) =>
          \E tok \in Tokens : DashAuthorized(tok) /\ ClearLogs(tok)]_vars

\* After a rotation removed the rows before it, send_logs holds a row with
\* an id above 1
C26_Witness ==
  /\ Len(logRotation) > 0
  /\ Len(sendLogs) = 1
  /\ sendLogs[1].id > 1

\* The ids the tables reminders and tasks have handed out after the step
ItemIds == 1..(nextReminderId' - 1) \cup 1..(nextTaskId' - 1)

\* The rows a step has inserted into reminders and tasks
NewItems ==
  (DOMAIN reminders' \ DOMAIN reminders) \cup (DOMAIN tasks' \ DOMAIN tasks)

\* C27: a log entry written with a ref_id carries the id of a task or
\* reminder row that exists or has existed, and the entry a create writes
\* carries the id of the row the create has inserted.
C27_RefIdNamesItem ==
  [][/\ \A k \in NewSendRows :
          sendLogs'[k].ref_id # Null => sendLogs'[k].ref_id \in ItemIds
     /\ \A k \in NewActivityRows :
          /\ activityLogs'[k].ref_id # Null =>
               activityLogs'[k].ref_id \in ItemIds
          /\ \A r \in NewItems : activityLogs'[k].ref_id = r]_vars

\* a create handler whose INSERT fails has run
FailedInsert == ~insertError /\ insertError'

\* the 'error' event of the failed INSERT has been delivered
FailedInsertSettled == insertError /\ ~insertError'

\* C28: when the INSERT of a create fails, the handler registers no trigger,
\* and afterwards the process is still running with the triggers it had.
C28_FailedInsertIsContained ==
  [][/\ FailedInsert => UNCHANGED registryVars
     /\ FailedInsertSettled => BotUp' /\ UNCHANGED registryVars]_vars

\* the callback of job j sends its message and logSend's INSERT then fails
SentButNotLogged(j) ==
  /\ jobs[j].channel_id \in channelCache
  /\ FireJobWith(j, "sent", "fails")

\* C29: when the message is sent and the write of its SendLogEntry fails,
\* the failure is printed, no entry (so no status=failed entry) is written
\* for the delivery, and the trigger stays registered and running.
C29_LogWriteFailureIsOnlyReported ==
  [][\A j \in DOMAIN jobs :
       SentButNotLogged(j) =>
         /\ logWriteError'
         /\ sendLogs' = sendLogs
         /\ UNCHANGED registryVars
         /\ jobs'[j].running = jobs[j].running]_vars

C29_Witness ==
  /\ logWriteError
  /\ sendLogs = <<>>
  /\ \E j \in DOMAIN jobs :
        jobs[j].running /\ jobs[j].channel_id \in channelCache

\* C30: on a database that has every migrated column the statements of a
\* run are skipped one after the other and the schema stays as it is, and
\* no step of any run changes or clears an updated_at that is not NULL.
C30_MigrationsAreIdempotent ==
  [][/\ columns = AllColumns /\ ExecuteMigration =>
          columns' = columns /\ migratePc' = migratePc + 1
     /\ \A k \in DOMAIN updatedAt :
          k \in DOMAIN updatedAt' /\ updatedAt'[k] = updatedAt[k]]_vars

\* a later run has finished: it filled in a row created since the run
\* before, next to a row that keeps the value of that earlier run
C30_Witness ==
  /\ migratePc = Done
  /\ columns = AllColumns
  /\ \E k, l \in DOMAIN updatedAt :
        updatedAt[k] < now /\ updatedAt[l] = now

\* the keys a delete-reminder can name
ReminderKeyRange == {<<"reminder", id>> : id \in 1..MaxItems}

\* C31: removing the trigger of a key that has no registry entry changes
\* nothing and the delete goes on to its success log, and removing a
\* trigger a second time gives the registry the first removal gave.
C31_UnregisterIdempotent ==
  [][/\ \A key \in ReminderKeyRange :
          LET once == Unregister(Registry, key)
          IN /\ key \notin DOMAIN cronJobs => once = Registry
             /\ key \notin DOMAIN once.cronJobs
             /\ Unregister(once, key) = once
     /\ \A u \in Users, id \in 1..MaxItems :
          HandleDeleteReminder(u, "ch1", id)
            /\ <<"reminder", id>> \notin DOMAIN cronJobs =>
              /\ UNCHANGED registryVars
              /\ activityLogs'[Len(activityLogs')].kind =
                   "activity:reminder_deleted"]_vars

\* a delete has removed a registered trigger: its job is stopped, its key
\* is gone, and another job is still registered
C31_Witness ==
  /\ \E j \in DOMAIN jobs :
        ~jobs[j].running /\ <<j[1], j[2]>> \notin DOMAIN cronJobs
  /\ \E i \in DOMAIN activityLogs :
        activityLogs[i].kind = "activity:reminder_deleted"

\* the jobs made for reminder `id` that are still running
RunningFor(js, id) ==
  {j \in DOMAIN js : j[1] = "reminder" /\ j[2] = id /\ js[j].running}

\* C32: when delete-reminder acknowledges the delete of reminder id, no
\* job made for that reminder is running any more.
C32_DeleteStopsTriggerFirst ==
  [][\A u \in Users, id \in 1..MaxItems :
       HandleDeleteReminder(u, "ch1", id)
         /\ Len(activityLogs') > Len(activityLogs) =>
           RunningFor(jobs', id) = {}]_vars

\* the client has been told that there is nothing more to fetch
PagingDone == pager.calls > 0 /\ ~pager.hasMore

\* C33: while rows are appended between the requests, no row is handed to
\* the client twice, and when the client is told there is no more it holds
\* every row that was stored when its first request was answered.
C33_LivePagingNeitherRepeatsNorSkips ==
  pager.calls > 0 =>
    /\ Cardinality(SeenRows) = Len(pager.seen)
    /\ PagingDone => pager.first \subseteq SeenRows

\* the number of times row r was handed to the client
TimesSeen(r) == Cardinality({i \in 1..Len(pager.seen) : pager.seen[i] = r})

\* C34: of a send_logs row and an activity_logs row with the same
\* timestamp, both stored at the first request, each has been handed to
\* the client exactly once when the client is told there is no more.
C34_TiedRowsSeenOnce ==
  PagingDone =>
    \A r, t \in pager.first :
      r.log_type = "send" /\ t.log_type = "activity"
        /\ r.timestamp = t.timestamp =>
          TimesSeen(r) = 1 /\ TimesSeen(t) = 1

\* C35: the records_archived of the log_rotation row a rotation writes is
\* the number of rows its DELETEs removed, whatever was appended between
\* its count and its DELETEs and whatever maxAge is.
C35_MarkerCountsDeletedRows ==
  [][RotateMark =>
       logRotation'[Len(logRotation')].records_archived =
         rotation.deleted]_vars

\* a create has stored row id of table `rows` and registered a job
Created(rows, rowsAfter, id) ==
  id \notin DOMAIN rows /\ id \in DOMAIN rowsAfter /\ jobs' # jobs

\* the registry after a create of (kind, id): the new job stands under the
\* key of its row and every earlier key still names the job it named
RegisteredUnderOwnKey(kind, id) ==
  /\ <<kind, id>> \in DOMAIN cronJobs'
  /\ cronJobs'[<<kind, id>>] \in DOMAIN jobs' \ DOMAIN jobs
  /\ \A key \in DOMAIN cronJobs :
       key \in DOMAIN cronJobs' /\ cronJobs'[key] = cronJobs[key]

\* C36: a create that stores a row and registers its trigger registers it
\* under the key made of that row's id, and leaves every earlier entry of
\* the registry naming the trigger it named.
C36_CreateRegistersUnderRowId ==
  [][\A id \in 1..MaxItems :
       /\ Created(reminders, reminders', id) =>
            RegisteredUnderOwnKey("reminder", id)
       /\ Created(tasks, tasks', id) =>
            RegisteredUnderOwnKey("task", id)]_vars

\* The response to the request with the limit of the query string
Answered == pager.calls = 1

\* max(limit, 0), with no row allowed for a limit that is no number
AtMost(text) ==
  LET limit == ParseLimit(text)
  IN IF limit.nan \/ limit.value < 0 THEN 0 ELSE limit.value

\* C37: for every limit of the query string (positive, 0, negative or no
\* number) the page has at most max(limit, 0) rows, and hasMore = true
\* implies a nextCursor that is not null and a page that is not empty.
C37_LimitBoundsPage ==
  Answered =>
    /\ Len(pager.seen) <= AtMost(pager.query)
    /\ pager.hasMore => pager.nextCursor # NoCursor /\ pager.seen # <<>>

\* A step of logEnhanced
Logged == enhancedCall'.n = enhancedCall.n + 1

\* The row and the activity log the call leaves behind
Recorded ==
  /\ Len(enhancedLogs') = Len(enhancedLogs) + 1
  /\ SubSeq(enhancedLogs', 1, Len(enhancedLogs)) = enhancedLogs
  /\ enhancedLogs'[Len(enhancedLogs')].category = enhancedCall'.category
  /\ enhancedLogs'[Len(enhancedLogs')].subcategory = enhancedCall'.subcategory
  /\ Len(activityLogs') = Len(activityLogs) + 1
  /\ SubSeq(activityLogs', 1, Len(activityLogs)) = activityLogs
  /\ activityLogs'[Len(activityLogs')].kind =
       KindText(enhancedCall'.category, enhancedCall'.subcategory)
  /\ activityLogs'[Len(activityLogs')].status = "failed"
       <=> enhancedCall'.level = "error"
  /\ activityLogs'[Len(activityLogs')].status \in {"failed", "success"}

\* A row marked as sent carries the id of a message that was delivered to
\* the channel configured for its category
MarkedOnlyIfSent ==
  \A i \in DOMAIN enhancedLogs' :
    enhancedLogs'[i].discord_sent = 1 =>
      /\ enhancedLogs'[i].discord_message_id # Null
      /\ \E m \in DOMAIN logMessages' :
           /\ logMessages'[m].id = enhancedLogs'[i].discord_message_id
           /\ logMessages'[m].category = enhancedLogs'[i].category

\* C38: every call of logEnhanced inserts one enhanced_logs row and one
\* activity log of kind category:subcategory whose status is failed exactly
\* when the level is error, whether or not the routing to Discord
\* succeeds; a row has discord_sent = 1 and a message id only if the message
\* was sent to the configured channel; no routing failure reaches the
\* caller.
C38_LogEnhancedAlwaysRecords ==
  [][Logged => /\ Recorded
               /\ MarkedOnlyIfSent
               /\ enhancedCall'.outcome = "returned"]_vars

\* An error event whose channel.send was rejected is recorded as failed
C38_Witness ==
  /\ enhancedCall.routing = "send_failed"
  /\ enhancedCall.level = "error"
  /\ enhancedCall.outcome = "returned"
  /\ \E i \in DOMAIN activityLogs :
       /\ activityLogs[i].status = "failed"
       /\ activityLogs[i].kind =
            KindText(enhancedCall.category, enhancedCall.subcategory)
  /\ \E i \in DOMAIN enhancedLogs : enhancedLogs[i].level = "error"

====
